---- MODULE Spec2Model ----
(***************************************************************************)
(* Graph searches (BFS, DFS, A-star) over the weighted city graph and the  *)
(* interval DP of the tile-shattering puzzle, as state machines: one       *)
(* action per iteration of each function's main loop.                      *)
(*                                                                         *)
(* Cities are numbered in alphabetical order of their names, so that the   *)
(* integer order of the model is the string order Python's sorted() and    *)
(* tuple comparison use.                                                   *)
(***************************************************************************)
EXTENDS Integers, Sequences, FiniteSets, TLC

VARIABLES
    alg,        \* the function being run
    edges,      \* the edge list (c1, c2, dist) the adjacency list is built from
    built,      \* how many edges the construction loop has consumed
    graph,      \* adjacency list: city -> sequence of <<neighbor, dist>>
    heuristic,  \* h table: city -> estimate
    start,      \* start city
    goal,       \* goal city
    open,       \* OPEN: heap list (astar), deque (bfs), stack (dfs)
    closed,     \* CLOSED
    g_costs,    \* astar: dict of the best g pushed so far per city
    parent,     \* solve_dfs: dict of parent pointers
    steps,      \* the function's trace
    pc,         \* "loop" while the while-loop runs, "done" after return
    path,       \* returned path (None: no path)
    total_cost, \* returned cost (astar, a_star_search)
    run,        \* number of the call in progress (1 or 2)
    first,      \* what the first call returned, kept by the caller
    arr,        \* tile shatter: padded array
    dp,         \* tile shatter: DP table, 0-based indices
    length,     \* tile shatter: outer loop variable
    left,       \* tile shatter: inner loop variable
    points,     \* tile shatter: the value returned
    data,          \* merge sort: the list sort was called with
    left_half,     \* merge sort: self.left_half
    right_half,    \* merge sort: self.right_half
    sorted_result, \* merge sort: self.sorted_result
    threads,       \* merge sort: where each of the four threads stands
    stacks,        \* merge sort: the pending quicksort calls of each sorter
    merge,         \* merge sort: the locals i, j, merged of the merge thread
    result,        \* merge sort: the value sort returned
    vulnerable_edges, \* simulator: network.vulnerable_edges
    source,        \* simulator: the source of the last path query
    target,        \* simulator: the target of the last path query
    path1,         \* simulator: the primary path of the last query
    path2,         \* simulator: the backup path of the last query
    found,         \* simulator: the flag of the last query
    colored_graph, \* coloring: the graph color_graph was called with
    sorted_nodes,  \* coloring: the nodes still to be colored, in order
    colors,        \* coloring: the dict colors
    root,          \* service centers: the tree minServiceCenters is given
    service_centers, \* service centers: self.service_centers
    status_log,    \* sorting system: self.status_log
    lock,          \* sorting system: whether self.lock is held
    logging        \* sorting system: where each thread is in log_status

sortVars == <<data, left_half, right_half, sorted_result, threads, stacks, merge,
              result>>
netVars == <<vulnerable_edges, source, target, path1, path2, found>>
colorVars == <<colored_graph, sorted_nodes, colors>>
treeVars == <<root, service_centers>>
logVars == <<status_log, lock, logging>>
restVars == <<colorVars, treeVars, logVars>>

vars == <<alg, edges, built, graph, heuristic, start, goal, open, closed, g_costs,
          parent, steps, pc, path, total_cost, run, first, arr, dp, length, left,
          points, sortVars, netVars, restVars>>

searchVars == <<open, closed, g_costs, parent, steps, pc, path, total_cost>>
inputVars == <<alg, edges, built, graph, heuristic, start, goal>>
tileVars == <<arr, dp, length, left, points>>

----------------------------------------------------------------------------
(* Bounds of the model *)

\* edge lists have at most MaxEdges edges
MaxEdges == 4
\* tile sequences have at most MaxTiles tiles
MaxTiles == 4

\* the cities
Nodes == {1, 2, 3, 4}
\* the costs an edge may have
Costs == {0, 1, 2}
\* the values a heuristic table may hold
HVals == {0, 2}
\* the values a tile multiplier may take
TileVals == {1, 3, 5, 8}

\* None as a returned path: the searches never return an empty list
None == <<>>
\* float('inf') as a returned cost: a value no sum of edge costs equals
Inf == 0 - 1
\* marks a city pair the edge list does not join
NoEdge == 0 - 1

----------------------------------------------------------------------------
(* Sequence helpers *)

RECURSIVE SeqLess(_, _)
\* Python's list comparison: s < t lexicographically
SeqLess(s, t) ==
    IF s = <<>> THEN t # <<>>
    ELSE IF t = <<>> THEN FALSE
    ELSE IF Head(s) # Head(t) THEN Head(s) < Head(t)
    ELSE SeqLess(Tail(s), Tail(t))

RemoveAt(s, i) == SubSeq(s, 1, i - 1) \o SubSeq(s, i + 1, Len(s))

Range(s) == {s[i] : i \in DOMAIN s}

Last(s) == s[Len(s)]

----------------------------------------------------------------------------
(* The adjacency list, built from the edge list *)

\* the unordered city pairs an edge may join, in the order the edge list
\* names them
PairList == <<<<1, 2>>, <<1, 3>>, <<1, 4>>, <<2, 3>>, <<2, 4>>, <<3, 4>>>>

RECURSIVE EdgesFrom(_, _)
\* the edge list holding pair PairList[i] with cost w[i], where w[i] # NoEdge
EdgesFrom(w, i) ==
    IF i > Len(PairList) THEN <<>>
    ELSE (IF w[i] = NoEdge THEN <<>>
          ELSE <<<<PairList[i][1], PairList[i][2], w[i]>>>>) \o EdgesFrom(w, i + 1)

\* the edge lists with costs in C: no city pair twice, no self-loop, at
\* most MaxEdges edges
EdgeListsOver(C) ==
    {EdgesFrom(w, 1) :
        w \in {v \in [DOMAIN PairList -> C \cup {NoEdge}] :
                 Cardinality({i \in DOMAIN PairList : v[i] # NoEdge}) <= MaxEdges}}

\* the edge lists of the model
EdgeLists == EdgeListsOver(Costs)

\* AppendBoth refusing an edge whose cost is negative
AppendBothChecked(g, e) ==
    IF e[3] < 0 THEN g
    ELSE [g EXCEPT ![e[1]] = Append(@, <<e[2], e[3]>>),
                   ![e[2]] = Append(@, <<e[1], e[3]>>)]

\* AppendBoth leaving alone an entry that is already there
AppendBothOnce(g, e) ==
    LET put(l, x) == IF \E i \in DOMAIN l : l[i] = x THEN l ELSE Append(l, x)
    IN [g EXCEPT ![e[1]] = put(@, <<e[2], e[3]>>),
                 ![e[2]] = put(@, <<e[1], e[3]>>)]

\* the body of the construction loop: both directions of the edge are
\* appended, whatever its cost and whatever the lists already hold
AppendBoth(g, e) ==
    LET c1 == e[1]
        c2 == e[2]
        dist == e[3]
        g1 == [g EXCEPT ![c1] = Append(@, <<c2, dist>>)]
    IN [g1 EXCEPT ![c2] = Append(@, <<c1, dist>>)]

RECURSIVE BuildGraph(_, _)
\* graph = {city: [] for city in city_coords}, then both directions of
\* every edge appended in edge-list order
BuildGraph(es, g) ==
    IF es = <<>> THEN g ELSE BuildGraph(Tail(es), AppendBoth(g, es[1]))

EmptyGraph == [city \in Nodes |-> <<>>]

----------------------------------------------------------------------------
(* A-star: astar (AStar_Graph.py) and a_star_search (Q-6(2).py) *)

\* Python's tuple comparison of two heap entries (f, g, node, path)
TupleLess(a, b) ==
    \/ a.f < b.f
    \/ a.f = b.f /\ a.g < b.g
    \/ a.f = b.f /\ a.g = b.g /\ a.node < b.node
    \/ a.f = b.f /\ a.g = b.g /\ a.node = b.node /\ SeqLess(a.path, b.path)

\* a queue in place of the heap: the entry pushed first is popped
HeapFirst(h) == 1

\* index of the entry heapq.heappop returns: the least entry of the heap
HeapMin(h) ==
    CHOOSE i \in DOMAIN h :
        \A j \in DOMAIN h : TupleLess(h[i], h[j]) \/ (h[i] = h[j] /\ i <= j)

\* Relax with f = h(neighbor), the g term forgotten
RelaxGreedy(st, e, cl, nb) ==
    LET neighbor == nb[1]
        new_g == e.g + nb[2]
        g1 == [n \in DOMAIN st.g \cup {neighbor} |->
                  IF n = neighbor THEN new_g ELSE st.g[n]]
    IN IF st.raised THEN st
       ELSE IF neighbor \notin cl
               /\ (neighbor \notin DOMAIN st.g \/ new_g < st.g[neighbor])
       THEN IF neighbor \notin DOMAIN heuristic
            THEN [st EXCEPT !.g = g1, !.raised = TRUE]
            ELSE [st EXCEPT !.g = g1,
                            !.heap = Append(@, [f |-> heuristic[neighbor],
                                                g |-> new_g, node |-> neighbor,
                                                path |-> Append(e.path, neighbor)])]
       ELSE st

\* Relax with heuristic.get(neighbor, 0) for heuristic[neighbor]
RelaxDefault(st, e, cl, nb) ==
    LET neighbor == nb[1]
        new_g == e.g + nb[2]
        h == IF neighbor \in DOMAIN heuristic THEN heuristic[neighbor] ELSE 0
        g1 == [n \in DOMAIN st.g \cup {neighbor} |->
                  IF n = neighbor THEN new_g ELSE st.g[n]]
    IN IF st.raised THEN st
       ELSE IF neighbor \notin cl
               /\ (neighbor \notin DOMAIN st.g \/ new_g < st.g[neighbor])
       THEN [st EXCEPT !.g = g1,
                       !.heap = Append(@, [f |-> new_g + h,
                                           g |-> new_g, node |-> neighbor,
                                           path |-> Append(e.path, neighbor)])]
       ELSE st

\* Relax counting every edge as 1: new_g = g_cost + 1
RelaxUnitCost(st, e, cl, nb) ==
    LET neighbor == nb[1]
        new_g == e.g + 1
        g1 == [n \in DOMAIN st.g \cup {neighbor} |->
                  IF n = neighbor THEN new_g ELSE st.g[n]]
    IN IF st.raised THEN st
       ELSE IF neighbor \notin cl
               /\ (neighbor \notin DOMAIN st.g \/ new_g < st.g[neighbor])
       THEN IF neighbor \notin DOMAIN heuristic
            THEN [st EXCEPT !.g = g1, !.raised = TRUE]
            ELSE [st EXCEPT !.g = g1,
                            !.heap = Append(@, [f |-> new_g + heuristic[neighbor],
                                                g |-> new_g, node |-> neighbor,
                                                path |-> Append(e.path, neighbor)])]
       ELSE st

\* one pass of the neighbor loop body: when the neighbor is not closed and
\* its new g improves on the recorded one, g_costs is updated and the
\* neighbor pushed with f = new_g + heuristic[neighbor]; the lookup raises
\* KeyError when the table has no entry for the neighbor
Relax(st, e, cl, nb) ==
    LET neighbor == nb[1]
        new_g == e.g + nb[2]
        g1 == [n \in DOMAIN st.g \cup {neighbor} |->
                  IF n = neighbor THEN new_g ELSE st.g[n]]
    IN IF st.raised THEN st
       ELSE IF neighbor \notin cl
               /\ (neighbor \notin DOMAIN st.g \/ new_g < st.g[neighbor])
       THEN IF neighbor \notin DOMAIN heuristic
            THEN [st EXCEPT !.g = g1, !.raised = TRUE]
            ELSE [st EXCEPT !.g = g1,
                            !.heap = Append(@, [f |-> new_g + heuristic[neighbor],
                                                g |-> new_g, node |-> neighbor,
                                                path |-> Append(e.path, neighbor)])]
       ELSE st

RECURSIVE Expand(_, _, _, _)
\* the loop over graph[current], in list order, up to the pass that raises
Expand(st, e, cl, nbs) ==
    IF nbs = <<>> THEN st
    ELSE Expand(Relax(st, e, cl, Head(nbs)), e, cl, Tail(nbs))

\* one iteration of astar's while loop; graph[current] raises KeyError when
\* the map has no entry for current, and the call ends there
astar ==
    /\ alg = "astar"
    /\ pc = "loop"
    /\ open # <<>>
    /\ LET i == HeapMin(open)
           e == open[i]
           rest == RemoveAt(open, i)
       IN IF e.node \in closed
          THEN /\ open' = rest
               /\ UNCHANGED <<closed, g_costs, steps, pc, path, total_cost>>
          ELSE LET cl == closed \cup {e.node}
                   entry == [current |-> e.node, path |-> e.path,
                             f_cost |-> e.f, g_cost |-> e.g,
                             h_cost |-> heuristic[e.node], closed |-> cl]
               IN /\ closed' = cl
                  /\ steps' = Append(steps, entry)
                  /\ IF e.node = goal
                     THEN /\ pc' = "done"
                          /\ path' = e.path
                          /\ total_cost' = e.g
                          /\ open' = rest
                          /\ UNCHANGED g_costs
                     ELSE IF e.node \notin DOMAIN graph
                     THEN /\ pc' = "raised"
                          /\ open' = rest
                          /\ UNCHANGED <<g_costs, path, total_cost>>
                     ELSE LET st == Expand([heap |-> rest, g |-> g_costs,
                                            raised |-> FALSE],
                                           e, cl, graph[e.node])
                          IN /\ open' = st.heap
                             /\ g_costs' = st.g
                             /\ pc' = IF st.raised THEN "raised" ELSE pc
                             /\ UNCHANGED <<path, total_cost>>
    /\ UNCHANGED <<parent, run, first>>
    /\ UNCHANGED inputVars
    /\ UNCHANGED <<sortVars, netVars, restVars>>
    /\ UNCHANGED tileVars

\* astar's loop ends with the heap empty: return None, 0, steps
astar_exhausted ==
    /\ alg = "astar"
    /\ pc = "loop"
    /\ open = <<>>
    /\ pc' = "done"
    /\ path' = None
    /\ total_cost' = 0
    /\ UNCHANGED <<open, closed, g_costs, parent, steps, run, first>>
    /\ UNCHANGED inputVars
    /\ UNCHANGED <<sortVars, netVars, restVars>>
    /\ UNCHANGED tileVars

\* one iteration of a_star_search's while loop: the goal test comes before
\* the CLOSED test, and no trace is kept; graph[current] raises KeyError
\* when the map has no entry for current, heuristic[neighbor] when the table
\* has none for a neighbor that is not closed, and the call ends there
a_star_search ==
    /\ alg = "a_star_search"
    /\ pc = "loop"
    /\ open # <<>>
    /\ LET i == HeapMin(open)
           e == open[i]
           rest == RemoveAt(open, i)
       IN IF e.node = goal
          THEN /\ pc' = "done"
               /\ path' = e.path
               /\ total_cost' = e.g
               /\ open' = rest
               /\ UNCHANGED <<closed, g_costs>>
          ELSE IF e.node \in closed
          THEN /\ open' = rest
               /\ UNCHANGED <<closed, g_costs, pc, path, total_cost>>
          ELSE LET cl == closed \cup {e.node}
               IN /\ closed' = cl
                  /\ IF \/ e.node \notin DOMAIN graph
                        \/ \E nb \in Range(graph[e.node]) :
                              nb[1] \notin cl /\ nb[1] \notin DOMAIN heuristic
                     THEN /\ pc' = "raised"
                          /\ open' = rest
                          /\ UNCHANGED <<g_costs, path, total_cost>>
                     ELSE LET st == Expand([heap |-> rest, g |-> g_costs,
                                            raised |-> FALSE],
                                           e, cl, graph[e.node])
                          IN /\ open' = st.heap
                             /\ g_costs' = st.g
                             /\ UNCHANGED <<pc, path, total_cost>>
    /\ UNCHANGED <<parent, steps, run, first>>
    /\ UNCHANGED inputVars
    /\ UNCHANGED <<sortVars, netVars, restVars>>
    /\ UNCHANGED tileVars

\* a_star_search's loop ends with OPEN empty: return None, float('inf')
a_star_search_exhausted ==
    /\ alg = "a_star_search"
    /\ pc = "loop"
    /\ open = <<>>
    /\ pc' = "done"
    /\ path' = None
    /\ total_cost' = Inf
    /\ UNCHANGED <<open, closed, g_costs, parent, steps, run, first>>
    /\ UNCHANGED inputVars
    /\ UNCHANGED <<sortVars, netVars, restVars>>
    /\ UNCHANGED tileVars

\* the locals at the top of the first loop iteration of astar /
\* a_star_search: the start entry pushed, CLOSED empty, g_costs = {start: 0}
AStarEntry(s) ==
    [open |-> <<[f |-> heuristic[s], g |-> 0, node |-> s, path |-> <<s>>]>>,
     closed |-> {},
     g_costs |-> [n \in {s} |-> 0],
     parent |-> <<>>,
     steps |-> <<>>]

\* a call begins: the locals take their entry values
Enter(loc) ==
    /\ open = loc.open
    /\ closed = loc.closed
    /\ g_costs = loc.g_costs
    /\ parent = loc.parent
    /\ steps = loc.steps
    /\ pc = "loop"
    /\ path = None
    /\ total_cost = 0

NoTile ==
    /\ arr = <<>>
    /\ dp = <<>>
    /\ length = 0
    /\ left = 0
    /\ points = 0

\* no sorter object exists
NoSort ==
    /\ data = <<>>
    /\ left_half = <<>>
    /\ right_half = <<>>
    /\ sorted_result = <<>>
    /\ threads = <<>>
    /\ stacks = <<>>
    /\ merge = <<>>
    /\ result = <<>>

\* no search is set up
NoSearch ==
    /\ edges = <<>>
    /\ built = 0
    /\ graph = <<>>
    /\ heuristic = <<>>
    /\ start = 1
    /\ goal = 1
    /\ open = <<>>
    /\ closed = {}
    /\ g_costs = <<>>
    /\ parent = <<>>
    /\ steps = <<>>
    /\ path = <<>>
    /\ total_cost = 0
    /\ run = 1
    /\ first = <<>>

\* no graph is being colored
NoColoring ==
    /\ colored_graph = <<>>
    /\ sorted_nodes = <<>>
    /\ colors = <<>>

\* no tree is given
NoTree ==
    /\ root = <<>>
    /\ service_centers = 0

\* no sorting system exists
NoLog ==
    /\ status_log = <<>>
    /\ lock = FALSE
    /\ logging = <<>>

\* none of the three
NoRest == NoColoring /\ NoTree /\ NoLog

\* no simulator exists
NoNetwork ==
    /\ vulnerable_edges = {}
    /\ source = 0
    /\ target = 0
    /\ path1 = <<>>
    /\ path2 = <<>>
    /\ found = FALSE

\* a call of one of the functions algs on a graph built from one of the
\* edge lists; start is the alphabetically first city: a search never
\* compares start with another city (start is closed by the first pop and
\* never pushed again, and every path begins with it)
InitAStarOn(algs, lists) ==
    /\ alg \in algs
    /\ edges \in lists
    /\ built = Len(edges)
    /\ graph = BuildGraph(edges, EmptyGraph)
    /\ heuristic \in [Nodes -> HVals]
    /\ start = 1
    /\ goal \in Nodes
    /\ Enter(AStarEntry(start))
    /\ run = 1
    /\ first = None
    /\ NoTile
    /\ NoSort
    /\ NoNetwork
    /\ NoRest

InitAStar == InitAStarOn({"astar", "a_star_search"}, EdgeLists)

NextAStar ==
    \/ astar
    \/ astar_exhausted
    \/ a_star_search
    \/ a_star_search_exhausted

SpecAStar == InitAStar /\ [][NextAStar]_vars

----------------------------------------------------------------------------
(* BFS and DFS with alphabetically sorted neighbors: bfs (BFS_Graph.py) and *)
(* dfs (DFS_Graph.py)                                                       *)

RECURSIVE InsertAsc(_, _)
\* x placed behind every entry whose city is not larger: a stable insertion
InsertAsc(x, s) ==
    IF s = <<>> THEN <<x>>
    ELSE IF x[1] < Head(s)[1] THEN <<x>> \o s
    ELSE <<Head(s)>> \o InsertAsc(x, Tail(s))

RECURSIVE InsertDesc(_, _)
\* x placed behind every entry whose city is not smaller
InsertDesc(x, s) ==
    IF s = <<>> THEN <<x>>
    ELSE IF x[1] > Head(s)[1] THEN <<x>> \o s
    ELSE <<Head(s)>> \o InsertDesc(x, Tail(s))

RECURSIVE SortedAsc(_, _)
\* sorted(nbs, key=lambda x: x[0]), acc the sorted prefix
SortedAsc(nbs, acc) ==
    IF nbs = <<>> THEN acc ELSE SortedAsc(Tail(nbs), InsertAsc(Head(nbs), acc))

\* the neighbors left in the order the adjacency list holds them
Unsorted(nbs, acc) == nbs

RECURSIVE SortedDesc(_, _)
\* sorted(nbs, key=lambda x: x[0], reverse=True), acc the sorted prefix
SortedDesc(nbs, acc) ==
    IF nbs = <<>> THEN acc ELSE SortedDesc(Tail(nbs), InsertDesc(Head(nbs), acc))

RECURSIVE PushAllLeft(_, _, _, _)
\* PushAll with appendleft for append
PushAllLeft(op, p, cl, nbs) ==
    IF nbs = <<>> THEN op
    ELSE PushAllLeft(IF Head(nbs)[1] \notin cl
                     THEN <<[node |-> Head(nbs)[1],
                             path |-> Append(p, Head(nbs)[1])]>> \o op
                     ELSE op,
                     p, cl, Tail(nbs))

RECURSIVE PushAll(_, _, _, _)
\* the neighbor loop of bfs and dfs: every neighbor not in CLOSED is
\* appended with the extended path
PushAll(op, p, cl, nbs) ==
    IF nbs = <<>> THEN op
    ELSE PushAll(IF Head(nbs)[1] \notin cl
                 THEN Append(op, [node |-> Head(nbs)[1],
                                  path |-> Append(p, Head(nbs)[1])])
                 ELSE op,
                 p, cl, Tail(nbs))

\* [x[0] for x in open]: the cities of the OPEN entries, in order
OpenNodes(op) == [i \in DOMAIN op |-> op[i].node]

\* Visit with an already closed entry put back instead of discarded
VisitRequeue(e, rest, nbs) ==
    IF e.node \in closed
    THEN /\ open' = Append(rest, e)
         /\ UNCHANGED <<closed, steps, pc, path>>
    ELSE LET cl == closed \cup {e.node}
             entry == [current |-> e.node, path |-> e.path,
                       open |-> OpenNodes(rest), closed |-> cl]
         IN /\ closed' = cl
            /\ steps' = Append(steps, entry)
            /\ IF e.node = goal
               THEN /\ pc' = "done"
                    /\ path' = e.path
                    /\ open' = rest
               ELSE /\ open' = PushAll(rest, e.path, cl, nbs)
                    /\ UNCHANGED <<pc, path>>

\* Visit without the "if current in closed_set: continue" test
VisitNoSkip(e, rest, nbs) ==
    LET cl == closed \cup {e.node}
        entry == [current |-> e.node, path |-> e.path,
                  open |-> OpenNodes(rest), closed |-> cl]
    IN /\ closed' = cl
       /\ steps' = Append(steps, entry)
       /\ IF e.node = goal
          THEN /\ pc' = "done"
               /\ path' = e.path
               /\ open' = rest
          ELSE /\ open' = PushAll(rest, e.path, cl, nbs)
               /\ UNCHANGED <<pc, path>>

\* Visit with the goal test after the neighbor loop
VisitPushFirst(e, rest, nbs) ==
    IF e.node \in closed
    THEN /\ open' = rest
         /\ UNCHANGED <<closed, steps, pc, path>>
    ELSE LET cl == closed \cup {e.node}
             entry == [current |-> e.node, path |-> e.path,
                       open |-> OpenNodes(rest), closed |-> cl]
         IN /\ closed' = cl
            /\ steps' = Append(steps, entry)
            /\ open' = PushAll(rest, e.path, cl, nbs)
            /\ IF e.node = goal
               THEN /\ pc' = "done"
                    /\ path' = e.path
               ELSE UNCHANGED <<pc, path>>

\* the part of an iteration bfs and dfs share, e the popped entry, rest
\* what is left of OPEN and nbs the sorted graph[current]; graph[current]
\* raises KeyError when the map has no entry for current, and the call ends
\* there
Visit(e, rest, nbs) ==
    IF e.node \in closed
    THEN /\ open' = rest
         /\ UNCHANGED <<closed, steps, pc, path>>
    ELSE LET cl == closed \cup {e.node}
             entry == [current |-> e.node, path |-> e.path,
                       open |-> OpenNodes(rest), closed |-> cl]
         IN /\ closed' = cl
            /\ steps' = Append(steps, entry)
            /\ IF e.node = goal
               THEN /\ pc' = "done"
                    /\ path' = e.path
                    /\ open' = rest
               ELSE IF e.node \notin DOMAIN graph
               THEN /\ pc' = "raised"
                    /\ open' = rest
                    /\ UNCHANGED path
               ELSE /\ open' = PushAll(rest, e.path, cl, nbs)
                    /\ UNCHANGED <<pc, path>>

\* one iteration of bfs's while loop: popleft
bfs ==
    /\ alg = "bfs"
    /\ pc = "loop"
    /\ open # <<>>
    /\ Visit(Head(open), Tail(open), SortedAsc(graph[Head(open).node], <<>>))
    /\ UNCHANGED <<g_costs, parent, total_cost, run, first>>
    /\ UNCHANGED inputVars
    /\ UNCHANGED <<sortVars, netVars, restVars>>
    /\ UNCHANGED tileVars

\* one iteration of dfs's while loop: pop
dfs ==
    /\ alg = "dfs"
    /\ pc = "loop"
    /\ open # <<>>
    /\ Visit(Last(open), SubSeq(open, 1, Len(open) - 1),
             SortedDesc(graph[Last(open).node], <<>>))
    /\ UNCHANGED <<g_costs, parent, total_cost, run, first>>
    /\ UNCHANGED inputVars
    /\ UNCHANGED <<sortVars, netVars, restVars>>
    /\ UNCHANGED tileVars

\* search_exhausted returning the last path popped instead of None
search_exhausted_lastpath ==
    /\ alg \in {"bfs", "dfs"}
    /\ pc = "loop"
    /\ open = <<>>
    /\ pc' = "done"
    /\ path' = IF steps = <<>> THEN None ELSE Last(steps).path
    /\ UNCHANGED <<open, closed, g_costs, parent, steps, total_cost, run, first>>
    /\ UNCHANGED inputVars
    /\ UNCHANGED <<sortVars, netVars, restVars>>
    /\ UNCHANGED tileVars

\* the loop of bfs or dfs ends with OPEN empty: return None, steps
search_exhausted ==
    /\ alg \in {"bfs", "dfs"}
    /\ pc = "loop"
    /\ open = <<>>
    /\ pc' = "done"
    /\ path' = None
    /\ UNCHANGED <<open, closed, g_costs, parent, steps, total_cost, run, first>>
    /\ UNCHANGED inputVars
    /\ UNCHANGED <<sortVars, netVars, restVars>>
    /\ UNCHANGED tileVars

----------------------------------------------------------------------------
(* The maps written out in the source: graph and heuristic (Q-6(2).py) and *)
(* poland_map (Q(6.a).py)                                                  *)

\* the city names of the maps, in alphabetical order
CityNames ==
    <<"Bydgoszcz", "Czestochowa", "Glogow", "Kalisz", "Katowice",
      "Kielce", "Konin", "Krakow", "Leszno", "Lodz",
      "Opole", "Plock", "Poznan", "Radom", "Warsaw",
      "Wloclawek", "Wroclaw", "Zielona_Gora">>

\* the number a city name stands for: its place in the alphabetical order
City(name) == CHOOSE i \in DOMAIN CityNames : CityNames[i] = name

\* graph = {...} of Q-6(2).py, entry by entry as written
graph_literal ==
    <<<<"Glogow",
         <<<<"Leszno", 45>>, <<"Wroclaw", 140>>>>>>,
      <<"Leszno",
         <<<<"Glogow", 45>>, <<"Poznan", 90>>, <<"Wroclaw", 100>>, <<"Kalisz", 140>>>>>>,
      <<"Poznan",
         <<<<"Leszno", 90>>, <<"Bydgoszcz", 140>>, <<"Konin", 130>>>>>>,
      <<"Bydgoszcz",
         <<<<"Poznan", 140>>, <<"Wloclawek", 110>>>>>>,
      <<"Wloclawek",
         <<<<"Bydgoszcz", 110>>, <<"Plock", 55>>, <<"Konin", 120>>>>>>,
      <<"Plock",
         <<<<"Wloclawek", 55>>, <<"Warsaw", 130>>>>>>,
      <<"Konin",
         <<<<"Poznan", 130>>, <<"Wloclawek", 120>>, <<"Lodz", 120>>>>>>,
      <<"Warsaw",
         <<<<"Plock", 130>>, <<"Lodz", 150>>, <<"Radom", 105>>>>>>,
      <<"Lodz",
         <<<<"Konin", 120>>, <<"Kalisz", 120>>, <<"Czestochowa", 160>>, <<"Katowice", 128>>, <<"Warsaw", 150>>, <<"Kielce", 165>>>>>>,
      <<"Kalisz",
         <<<<"Leszno", 140>>, <<"Lodz", 120>>, <<"Czestochowa", 160>>>>>>,
      <<"Wroclaw",
         <<<<"Glogow", 140>>, <<"Leszno", 100>>, <<"Opole", 100>>>>>>,
      <<"Opole",
         <<<<"Wroclaw", 100>>, <<"Czestochowa", 118>>>>>>,
      <<"Czestochowa",
         <<<<"Kalisz", 160>>, <<"Lodz", 160>>, <<"Katowice", 80>>, <<"Opole", 118>>>>>>,
      <<"Katowice",
         <<<<"Czestochowa", 80>>, <<"Lodz", 128>>, <<"Krakow", 85>>>>>>,
      <<"Krakow",
         <<<<"Katowice", 85>>, <<"Kielce", 120>>, <<"Lodz", 280>>>>>>,
      <<"Kielce",
         <<<<"Lodz", 165>>, <<"Krakow", 120>>, <<"Radom", 82>>>>>>,
      <<"Radom",
         <<<<"Warsaw", 105>>, <<"Kielce", 82>>>>>>>>

\* heuristic = {...} of Q-6(2).py
heuristic_literal ==
    <<<<"Glogow", 200>>, <<"Leszno", 170>>, <<"Poznan", 160>>,
      <<"Bydgoszcz", 90>>, <<"Wloclawek", 44>>, <<"Plock", 0>>,
      <<"Konin", 96>>, <<"Warsaw", 95>>, <<"Lodz", 118>>,
      <<"Kalisz", 140>>, <<"Wroclaw", 200>>, <<"Opole", 220>>,
      <<"Czestochowa", 180>>, <<"Katowice", 200>>, <<"Krakow", 250>>,
      <<"Kielce", 160>>, <<"Radom", 120>>>>

\* poland_map = {...} of Q(6.a).py, entry by entry as written
poland_map_literal ==
    <<<<"Glogow",
         <<<<"Leszno", 45>>, <<"Zielona_Gora", 40>>>>>>,
      <<"Zielona_Gora",
         <<<<"Glogow", 40>>, <<"Poznan", 90>>>>>>,
      <<"Leszno",
         <<<<"Glogow", 45>>, <<"Poznan", 140>>, <<"Wroclaw", 100>>, <<"Kalisz", 140>>>>>>,
      <<"Wroclaw",
         <<<<"Leszno", 100>>, <<"Opole", 100>>, <<"Czestochowa", 118>>>>>>,
      <<"Opole",
         <<<<"Wroclaw", 100>>, <<"Katowice", 85>>>>>>,
      <<"Katowice",
         <<<<"Opole", 85>>, <<"Krakow", 85>>, <<"Czestochowa", 80>>>>>>,
      <<"Krakow",
         <<<<"Katowice", 85>>, <<"Kielce", 120>>>>>>,
      <<"Kielce",
         <<<<"Krakow", 120>>, <<"Radom", 82>>, <<"Lodz", 280>>>>>>,
      <<"Radom",
         <<<<"Kielce", 82>>, <<"Warsaw", 105>>>>>>,
      <<"Warsaw",
         <<<<"Radom", 105>>, <<"Lodz", 150>>, <<"Plock", 130>>>>>>,
      <<"Plock",
         <<<<"Warsaw", 130>>, <<"Wloclawek", 55>>, <<"Lodz", 165>>>>>>,
      <<"Wloclawek",
         <<<<"Plock", 55>>, <<"Bydgoszcz", 110>>, <<"Konin", 120>>>>>>,
      <<"Bydgoszcz",
         <<<<"Wloclawek", 110>>, <<"Poznan", 140>>>>>>,
      <<"Poznan",
         <<<<"Bydgoszcz", 140>>, <<"Zielona_Gora", 90>>, <<"Leszno", 140>>, <<"Konin", 120>>>>>>,
      <<"Konin",
         <<<<"Poznan", 120>>, <<"Wloclawek", 120>>, <<"Kalisz", 160>>, <<"Lodz", 120>>>>>>,
      <<"Kalisz",
         <<<<"Konin", 160>>, <<"Leszno", 140>>, <<"Lodz", 128>>>>>>,
      <<"Lodz",
         <<<<"Kalisz", 128>>, <<"Konin", 120>>, <<"Wloclawek", 165>>, <<"Plock", 165>>, <<"Warsaw", 150>>, <<"Kielce", 280>>, <<"Czestochowa", 128>>>>>>,
      <<"Czestochowa",
         <<<<"Lodz", 128>>, <<"Wroclaw", 118>>, <<"Katowice", 80>>>>>>>>

\* the dict a literal of (key, [(neighbor, dist), ...]) rows denotes
DictOf(lit) ==
    [c \in {City(lit[i][1]) : i \in DOMAIN lit} |->
        LET row == lit[CHOOSE i \in DOMAIN lit : City(lit[i][1]) = c][2]
        IN [j \in DOMAIN row |-> <<City(row[j][1]), row[j][2]>>]]

\* the map a_star_search is called with
graph_Q6_2 == DictOf(graph_literal)

\* the table a_star_search is called with
heuristic_Q6_2 ==
    [c \in {City(heuristic_literal[i][1]) : i \in DOMAIN heuristic_literal} |->
        heuristic_literal[CHOOSE i \in DOMAIN heuristic_literal :
                              City(heuristic_literal[i][1]) = c][2]]

\* the map solve_dfs is called with
poland_map == DictOf(poland_map_literal)

----------------------------------------------------------------------------
(* BFS and DFS over a graph passed as a dict literal: bfs_with_containers  *)
(* (Q.6(1.b).py) and solve_dfs with reconstruct_path (Q(6.a).py).          *)
(* The literal lists a city's neighbors in an order of its author's        *)
(* choosing, and a call reads each city's list at most once (when the city *)
(* is closed), so the order is chosen where the list is read; poland_map   *)
(* is read in the order it is written.                                     *)

\* the orders a dict literal may list the neighbors nbs in
Listings(nbs) ==
    {[i \in DOMAIN nbs |-> nbs[p[i]]] :
        p \in {q \in [DOMAIN nbs -> DOMAIN nbs] :
                 \A i, j \in DOMAIN nbs : q[i] = q[j] => i = j}}

RECURSIVE Enqueue(_, _, _)
\* the children loop of bfs_with_containers: a child is appended unless its
\* city is already in OPEN
Enqueue(op, p, children) ==
    IF children = <<>> THEN op
    ELSE Enqueue(IF Head(children)[1] \notin Range(OpenNodes(op))
                 THEN Append(op, [node |-> Head(children)[1],
                                  path |-> Append(p, Head(children)[1])])
                 ELSE op,
                 p, Tail(children))

\* one iteration of bfs_with_containers's while loop: the goal test comes
\* before the CLOSED test, and graph.get(current_node, []) reads a city
\* without entry as a city without neighbors
bfs_with_containers ==
    /\ alg = "bfs_with_containers"
    /\ pc = "loop"
    /\ open # <<>>
    /\ LET e == Head(open)
           rest == Tail(open)
       IN IF e.node = goal
          THEN /\ pc' = "done"
               /\ path' = e.path
               /\ open' = rest
               /\ UNCHANGED closed
          ELSE IF e.node \in closed
          THEN /\ open' = rest
               /\ UNCHANGED <<closed, pc, path>>
          ELSE \E neighbors \in Listings(IF e.node \in DOMAIN graph
                                           THEN graph[e.node] ELSE <<>>) :
                  LET cl == closed \cup {e.node}
                      children == SelectSeq(neighbors, LAMBDA nb : nb[1] \notin cl)
                  IN /\ closed' = cl
                     /\ open' = Enqueue(rest, e.path, children)
                     /\ UNCHANGED <<pc, path>>
    /\ UNCHANGED <<g_costs, parent, steps, total_cost, run, first>>
    /\ UNCHANGED inputVars
    /\ UNCHANGED <<sortVars, netVars, restVars>>
    /\ UNCHANGED tileVars

\* None as a value of the parent dict
NoParent == 0

RECURSIVE reconstruct_unreversed(_, _)
\* reconstruct_path without the final [::-1]
reconstruct_unreversed(par, g) ==
    IF g = NoParent THEN <<>>
    ELSE <<g>> \o reconstruct_unreversed(par, par[g])

RECURSIVE reconstruct_path(_, _)
\* the path read back from the parent pointers; the loop runs while the
\* city is truthy (neither None nor 0)
reconstruct_path(par, g) ==
    IF g = NoParent THEN <<>>
    ELSE Append(reconstruct_path(par, par[g]), g)

RECURSIVE PushChildren(_, _, _, _)
\* the neighbor loop of solve_dfs: every neighbor not in CLOSED is pushed
\* and its parent pointer overwritten
PushChildren(st, current, cl, nbs) ==
    IF nbs = <<>> THEN st
    ELSE LET neighbor == Head(nbs)[1]
         IN PushChildren(
                IF neighbor \notin cl
                THEN [stack |-> Append(st.stack, [node |-> neighbor, path |-> <<>>]),
                      par |-> [n \in DOMAIN st.par \cup {neighbor} |->
                                  IF n = neighbor THEN current ELSE st.par[n]]]
                ELSE st,
                current, cl, Tail(nbs))

\* one iteration of solve_dfs's while loop; OPEN holds cities only;
\* graph[current] raises KeyError when the map has no entry for current, and
\* the call ends there
solve_dfs ==
    /\ alg = "solve_dfs"
    /\ pc = "loop"
    /\ open # <<>>
    /\ LET current == Last(open).node
           rest == SubSeq(open, 1, Len(open) - 1)
       IN IF current \in closed
          THEN /\ open' = rest
               /\ UNCHANGED <<closed, parent, pc, path>>
          ELSE IF current = goal
          THEN /\ pc' = "done"
               /\ path' = reconstruct_path(parent, goal)
               /\ open' = rest
               /\ UNCHANGED <<closed, parent>>
          ELSE IF current \notin DOMAIN graph
          THEN /\ pc' = "raised"
               /\ closed' = closed \cup {current}
               /\ open' = rest
               /\ UNCHANGED <<parent, path>>
          ELSE \E neighbors \in IF graph = poland_map THEN {graph[current]}
                                   ELSE Listings(graph[current]) :
                  LET cl == closed \cup {current}
                      st == PushChildren([stack |-> rest, par |-> parent],
                                         current, cl, neighbors)
                  IN /\ closed' = cl
                     /\ open' = st.stack
                     /\ parent' = st.par
                     /\ UNCHANGED <<pc, path>>
    /\ UNCHANGED <<g_costs, steps, total_cost, run, first>>
    /\ UNCHANGED inputVars
    /\ UNCHANGED <<sortVars, netVars, restVars>>
    /\ UNCHANGED tileVars

\* the loop of bfs_with_containers or solve_dfs ends with OPEN empty:
\* return None (solve_dfs by falling off its end)
containers_exhausted ==
    /\ alg \in {"bfs_with_containers", "solve_dfs"}
    /\ pc = "loop"
    /\ open = <<>>
    /\ pc' = "done"
    /\ path' = None
    /\ UNCHANGED <<open, closed, g_costs, parent, steps, total_cost, run, first>>
    /\ UNCHANGED inputVars
    /\ UNCHANGED <<sortVars, netVars, restVars>>
    /\ UNCHANGED tileVars

\* the locals at the top of the first loop iteration of bfs, dfs,
\* bfs_with_containers (OPEN = [(start, [start])]) and solve_dfs
\* (OPEN = [start], parent = {start: None})
SearchEntry(a, s) ==
    [open |-> <<[node |-> s, path |-> IF a = "solve_dfs" THEN <<>> ELSE <<s>>]>>,
     closed |-> {},
     g_costs |-> <<>>,
     parent |-> IF a = "solve_dfs" THEN [n \in {s} |-> NoParent] ELSE <<>>,
     steps |-> <<>>]

InitSearchOn(algs, lists) ==
    /\ alg \in algs
    /\ edges \in lists
    /\ built = Len(edges)
    /\ graph = BuildGraph(edges, EmptyGraph)
    /\ heuristic = [n \in Nodes |-> 0]
    /\ start \in Nodes
    /\ goal \in Nodes
    /\ Enter(SearchEntry(alg, start))
    /\ run = 1
    /\ first = None
    /\ NoTile
    /\ NoSort
    /\ NoNetwork
    /\ NoRest

InitSearch ==
    InitSearchOn({"bfs", "dfs", "bfs_with_containers", "solve_dfs"}, EdgeLists)

NextSearch ==
    \/ bfs
    \/ dfs
    \/ search_exhausted
    \/ bfs_with_containers
    \/ solve_dfs
    \/ containers_exhausted

SpecSearch == InitSearch /\ [][NextSearch]_vars

----------------------------------------------------------------------------
(* The interval DP: strategic_tile_shatter (Q_(2.a).py) *)

RECURSIVE SeqsUpTo(_)
\* the tile sequences of length at most k
SeqsUpTo(k) ==
    IF k = 0 THEN {<<>>}
    ELSE LET shorter == SeqsUpTo(k - 1)
         IN shorter \cup {Append(t, v) : t \in {u \in shorter : Len(u) = k - 1},
                                         v \in TileVals}

\* the cell loop with the k range one short: range(left + 1, right - 1)
CellShort(d, a, l, r) ==
    LET best[k \in l..(r - 1)] ==
            IF k = l THEN d[l][r]
            ELSE IF k = r - 1 THEN best[k - 1]
            ELSE LET pts == d[l][k] + d[k][r] + a[l + 1] * a[k + 1] * a[r + 1]
                 IN IF pts > best[k - 1] THEN pts ELSE best[k - 1]
    IN best[r - 1]

\* the cell loop with the three values added instead of multiplied
CellSum(d, a, l, r) ==
    LET best[k \in l..(r - 1)] ==
            IF k = l THEN d[l][r]
            ELSE LET pts == d[l][k] + d[k][r] + a[l + 1] + a[k + 1] + a[r + 1]
                 IN IF pts > best[k - 1] THEN pts ELSE best[k - 1]
    IN best[r - 1]

\* the cell loop with min for max
CellMin(d, a, l, r) ==
    LET best[k \in l..(r - 1)] ==
            IF k = l THEN d[l][r]
            ELSE LET pts == d[l][k] + d[k][r] + a[l + 1] * a[k + 1] * a[r + 1]
                 IN IF pts < best[k - 1] THEN pts ELSE best[k - 1]
    IN best[r - 1]

\* the loop over k of one cell: dp[left][right] after
\* dp[left][right] = max(dp[left][right], points) for k = left+1 .. right-1
\* (arr is 0-based in the code, a is 1-based here)
Cell(d, a, l, r) ==
    LET best[k \in l..(r - 1)] ==
            IF k = l THEN d[l][r]
            ELSE LET pts == d[l][k] + d[k][r] + a[l + 1] * a[k + 1] * a[r + 1]
                 IN IF pts > best[k - 1] THEN pts ELSE best[k - 1]
    IN best[r - 1]

\* the two loops exchanged: for each left, every length in turn
tile_shatter_by_rows ==
    /\ alg = "strategic_tile_shatter"
    /\ pc = "loop"
    /\ LET n == Len(arr)
           right == left + length
       IN /\ length < n
          /\ dp' = [dp EXCEPT ![left][right] = Cell(dp, arr, left, right)]
          /\ IF right + 1 < n
             THEN /\ length' = length + 1
                  /\ UNCHANGED left
             ELSE IF left + 3 < n
             THEN /\ left' = left + 1
                  /\ length' = 2
             ELSE /\ left' = 0
                  /\ length' = n
    /\ UNCHANGED <<arr, points>>
    /\ UNCHANGED searchVars
    /\ UNCHANGED <<run, first>>
    /\ UNCHANGED inputVars
    /\ UNCHANGED <<sortVars, netVars, restVars>>

\* one pass of the body of "for left in range(0, n - length)": the cell
\* dp[left][left + length] is computed, then the loops advance
strategic_tile_shatter ==
    /\ alg = "strategic_tile_shatter"
    /\ pc = "loop"
    /\ LET n == Len(arr)
           right == left + length
       IN /\ length < n
          /\ dp' = [dp EXCEPT ![left][right] = Cell(dp, arr, left, right)]
          /\ IF left + 1 < n - length
             THEN /\ left' = left + 1
                  /\ UNCHANGED length
             ELSE /\ left' = 0
                  /\ length' = length + 1
    /\ UNCHANGED <<arr, points>>
    /\ UNCHANGED searchVars
    /\ UNCHANGED <<run, first>>
    /\ UNCHANGED inputVars
    /\ UNCHANGED <<sortVars, netVars, restVars>>

\* the outer loop is over: return dp[0][n - 1]
tile_return ==
    /\ alg = "strategic_tile_shatter"
    /\ pc = "loop"
    /\ length >= Len(arr)
    /\ pc' = "done"
    /\ points' = dp[0][Len(arr) - 1]
    /\ UNCHANGED <<arr, dp, length, left>>
    /\ UNCHANGED <<open, closed, g_costs, parent, steps, path, total_cost>>
    /\ UNCHANGED <<run, first>>
    /\ UNCHANGED inputVars
    /\ UNCHANGED <<sortVars, netVars, restVars>>

\* a table of ones
DpOnes(n) == [i \in 0..(n - 1) |-> [j \in 0..(n - 1) |-> 1]]

\* dp = [[0 for _ in range(n)] for _ in range(n)]
DpZero(n) == [i \in 0..(n - 1) |-> [j \in 0..(n - 1) |-> 0]]

\* the tiles the function was called with
Tiles == SubSeq(arr, 2, Len(arr) - 1)

InitTile ==
    /\ alg = "strategic_tile_shatter"
    /\ \E tile_multipliers \in SeqsUpTo(MaxTiles) :
          arr = <<1>> \o tile_multipliers \o <<1>>
    /\ dp = DpZero(Len(arr))
    /\ length = 2
    /\ left = 0
    /\ points = 0
    /\ pc = "loop"
    /\ edges = <<>>
    /\ built = 0
    /\ graph = EmptyGraph
    /\ heuristic = [n \in Nodes |-> 0]
    /\ start = 1
    /\ goal = 1
    /\ open = <<>>
    /\ closed = {}
    /\ g_costs = <<>>
    /\ parent = <<>>
    /\ steps = <<>>
    /\ path = None
    /\ total_cost = 0
    /\ run = 1
    /\ first = None
    /\ NoSort
    /\ NoNetwork
    /\ NoRest

NextTile ==
    \/ strategic_tile_shatter
    \/ tile_return

SpecTile == InitTile /\ [][NextTile]_vars

----------------------------------------------------------------------------
(* The construction loop of the adjacency list, one edge per step          *)
(* (AStar_Graph.py, BFS_Graph.py, DFS_Graph.py)                            *)

\* edge lists handed to the construction loop have at most MaxBuild edges
MaxBuild == 2

\* the costs an edge handed to the construction loop may carry
BuildCosts == {0 - 1, 1, 2}

RECURSIVE BuildLists(_)
\* the edge lists of at most k edges: any two different cities, any cost,
\* repeats allowed
BuildLists(k) ==
    IF k = 0 THEN {<<>>}
    ELSE LET shorter == BuildLists(k - 1)
         IN shorter \cup
            {Append(es, <<c[1], c[2], dist>>) :
                es \in {l \in shorter : Len(l) = k - 1},
                c \in {d \in Nodes \X Nodes : d[1] # d[2]}, dist \in BuildCosts}

\* one pass of "for c1, c2, dist in edges"
build_adjacency ==
    /\ alg = "build"
    /\ pc = "loop"
    /\ built < Len(edges)
    /\ graph' = AppendBoth(graph, edges[built + 1])
    /\ built' = built + 1
    /\ pc' = IF built + 1 = Len(edges) THEN "done" ELSE "loop"
    /\ UNCHANGED <<alg, edges, heuristic, start, goal>>
    /\ UNCHANGED <<open, closed, g_costs, parent, steps, path, total_cost>>
    /\ UNCHANGED <<run, first>>
    /\ UNCHANGED tileVars
    /\ UNCHANGED <<sortVars, netVars, restVars>>

InitBuild ==
    /\ alg = "build"
    /\ edges \in BuildLists(MaxBuild)
    /\ built = 0
    /\ graph = EmptyGraph
    /\ pc = IF edges = <<>> THEN "done" ELSE "loop"
    /\ heuristic = [n \in Nodes |-> 0]
    /\ start = 1
    /\ goal = 1
    /\ open = <<>>
    /\ closed = {}
    /\ g_costs = <<>>
    /\ parent = <<>>
    /\ steps = <<>>
    /\ path = None
    /\ total_cost = 0
    /\ run = 1
    /\ first = None
    /\ NoTile
    /\ NoSort
    /\ NoNetwork
    /\ NoRest

NextBuild == build_adjacency

SpecBuild == InitBuild /\ [][NextBuild]_vars

\* bfs and dfs, which never read a cost, on the graphs built from the edge
\* lists of at most MaxBuild + 1 edges of cost 1, in any order: an adjacency
\* list may name its cities in any order and name a city twice
InitOrder ==
    InitSearchOn({"bfs", "dfs"},
                 {es \in BuildLists(MaxBuild + 1) :
                     \A i \in DOMAIN es : es[i][3] = 1})

NextOrder ==
    \/ bfs
    \/ dfs
    \/ search_exhausted

SpecOrder == InitOrder /\ [][NextOrder]_vars

----------------------------------------------------------------------------
(* The searches on the maps written out in the source *)

\* a_star_search(graph, heuristic, START, GOAL) and
\* solve_dfs(poland_map, 'Glogow', 'Plock'), between any two cities
InitMaps ==
    /\ \/ /\ alg = "a_star_search"
          /\ graph = graph_Q6_2
          /\ heuristic = heuristic_Q6_2
          /\ start \in DOMAIN graph
          /\ goal \in DOMAIN graph
          /\ Enter(AStarEntry(start))
       \/ /\ alg = "solve_dfs"
          /\ graph = poland_map
          /\ heuristic = [c \in DOMAIN poland_map |-> 0]
          /\ start \in DOMAIN graph
          /\ goal \in DOMAIN graph
          /\ Enter(SearchEntry(alg, start))
    /\ edges = <<>>
    /\ built = 0
    /\ run = 1
    /\ first = None
    /\ NoTile
    /\ NoSort
    /\ NoNetwork
    /\ NoRest

NextMaps ==
    \/ a_star_search
    \/ solve_dfs

SpecMaps == InitMaps /\ [][NextMaps]_vars

----------------------------------------------------------------------------
(* All searches together, and a search called twice *)

Init == InitAStar \/ InitSearch

Next == NextAStar \/ NextSearch

Spec == Init /\ [][Next]_vars

\* astar over the graphs of fewer than MaxEdges edges that cost 1 or 2; bfs
\* and dfs, which never read a cost, over the graphs whose edges cost 1
InitFair ==
    \/ InitAStarOn({"astar"},
                   {es \in EdgeListsOver({1, 2}) : Len(es) < MaxEdges})
    \/ InitSearchOn({"bfs", "dfs"}, EdgeListsOver({1}))

NextFair ==
    \/ astar
    \/ astar_exhausted
    \/ bfs
    \/ dfs
    \/ search_exhausted

\* a running call keeps taking loop iterations until it returns
SpecFair == InitFair /\ [][NextFair]_vars /\ WF_vars(NextFair)

\* astar over the graphs whose edges cost 1 or 2, with a heuristic that is 0
\* at the start and at the goal and the same at the cities between
InitFairAStar ==
    /\ InitAStarOn({"astar"}, EdgeListsOver({1, 2}))
    /\ heuristic[start] = 0
    /\ heuristic[goal] = 0
    /\ \A m, n \in Nodes \ {start, goal} : heuristic[m] = heuristic[n]

NextFairAStar ==
    \/ astar
    \/ astar_exhausted

SpecFairAStar ==
    InitFairAStar /\ [][NextFairAStar]_vars /\ WF_vars(NextFairAStar)

\* what a call hands back to its caller
Returned == [path |-> path, cost |-> total_cost, steps |-> steps]

\* the locals a fresh call of the function alg starts with
Fresh == IF alg = "astar" THEN AStarEntry(start) ELSE SearchEntry(alg, start)

\* a second call whose g_costs is the dict the first call left behind
call_again_stale ==
    /\ run = 1
    /\ pc = "done"
    /\ first' = Returned
    /\ run' = 2
    /\ open' = Fresh.open
    /\ closed' = Fresh.closed
    /\ UNCHANGED g_costs
    /\ parent' = Fresh.parent
    /\ steps' = Fresh.steps
    /\ pc' = "loop"
    /\ path' = None
    /\ total_cost' = 0
    /\ UNCHANGED inputVars
    /\ UNCHANGED <<sortVars, netVars, restVars>>
    /\ UNCHANGED tileVars

\* the caller keeps what the first call returned and calls the same
\* function again with the same arguments: every local is created anew
call_again ==
    /\ run = 1
    /\ pc = "done"
    /\ first' = Returned
    /\ run' = 2
    /\ open' = Fresh.open
    /\ closed' = Fresh.closed
    /\ g_costs' = Fresh.g_costs
    /\ parent' = Fresh.parent
    /\ steps' = Fresh.steps
    /\ pc' = "loop"
    /\ path' = None
    /\ total_cost' = 0
    /\ UNCHANGED inputVars
    /\ UNCHANGED <<sortVars, netVars, restVars>>
    /\ UNCHANGED tileVars

InitTwice ==
    \/ InitAStarOn({"astar"}, EdgeLists)
    \/ InitSearchOn({"bfs", "dfs"}, EdgeLists)

NextTwice ==
    \/ astar
    \/ astar_exhausted
    \/ bfs
    \/ dfs
    \/ search_exhausted
    \/ call_again

SpecTwice == InitTwice /\ [][NextTwice]_vars

----------------------------------------------------------------------------
(* Searches over tables that lack entries: a heuristic table without a     *)
(* value for some city, an adjacency map without a list for some city      *)

\* a call that raised KeyError before its first loop iteration
RaisedAtEntry ==
    /\ open = <<>>
    /\ closed = {}
    /\ g_costs = <<>>
    /\ parent = <<>>
    /\ steps = <<>>
    /\ pc = "raised"
    /\ path = None
    /\ total_cost = 0

\* the heuristic tables that hold a value for some of the cities
PartialTables == UNION {[K -> HVals] : K \in SUBSET Nodes}

\* astar and a_star_search with a heuristic table that may lack entries;
\* heuristic[start] is looked up to build the first OPEN entry
InitHeuristicKeys ==
    /\ alg \in {"astar", "a_star_search"}
    /\ edges \in EdgeListsOver({1})
    /\ built = Len(edges)
    /\ graph = BuildGraph(edges, EmptyGraph)
    /\ heuristic \in PartialTables
    /\ start = 1
    /\ goal \in Nodes
    /\ IF start \in DOMAIN heuristic THEN Enter(AStarEntry(start))
       ELSE RaisedAtEntry
    /\ run = 1
    /\ first = None
    /\ NoTile
    /\ NoSort
    /\ NoNetwork
    /\ NoRest

SpecHeuristicKeys == InitHeuristicKeys /\ [][NextAStar]_vars

\* the searches on a map that may lack entries. The map of astar, bfs and
\* dfs is built over the cities of city_coords, which every edge joins;
\* start and goal are any names. The map passed to a_star_search,
\* bfs_with_containers and solve_dfs is a dict that may name, as a neighbor,
\* a city it has no entry for.
InitGraphKeys ==
    /\ alg \in {"astar", "a_star_search", "bfs", "dfs",
                "bfs_with_containers", "solve_dfs"}
    /\ edges \in EdgeListsOver({1})
    /\ built = Len(edges)
    /\ \E city_coords \in SUBSET Nodes :
          IF alg \in {"astar", "bfs", "dfs"}
          THEN /\ \A i \in DOMAIN edges :
                     edges[i][1] \in city_coords /\ edges[i][2] \in city_coords
               /\ graph = BuildGraph(edges, [city \in city_coords |-> <<>>])
          ELSE graph = [city \in city_coords |->
                           BuildGraph(edges, EmptyGraph)[city]]
    /\ heuristic = [n \in Nodes |-> 0]
    /\ start \in Nodes
    /\ goal \in Nodes
    /\ Enter(IF alg \in {"astar", "a_star_search"} THEN AStarEntry(start)
             ELSE SearchEntry(alg, start))
    /\ run = 1
    /\ first = None
    /\ NoTile
    /\ NoSort
    /\ NoNetwork
    /\ NoRest

SpecGraphKeys == InitGraphKeys /\ [][Next]_vars

----------------------------------------------------------------------------
(* The multithreaded merge sort: MultithreadedMergeSort (5.(b)code.py) and *)
(* SortingSystem (Q(5.b).py). Four threads: the caller of sort, the two    *)
(* sorters and the merger. A sorter takes one quicksort call per step, the *)
(* merger one loop iteration per step. List indices are 0-based, as in the *)
(* code.                                                                   *)

\* the lists sort is called with have at most MaxData elements
MaxData == 5

\* the integers a list may hold
DataVals == {1, 2, 3}

RECURSIVE IntLists(_)
\* the lists of at most k integers
IntLists(k) ==
    IF k = 0 THEN {<<>>}
    ELSE LET shorter == IntLists(k - 1)
         IN shorter \cup {Append(l, v) : l \in {m \in shorter : Len(m) = k - 1},
                                         v \in DataVals}

\* arr[i], arr[j] = arr[j], arr[i]
Swap(a, i, j) == [a EXCEPT ![i + 1] = a[j + 1], ![j + 1] = a[i + 1]]

\* partition without the closing swap that puts the pivot in its place
partition_noswap(a, low, high) ==
    LET pivot == a[high + 1]
        loop[j \in low..high] ==
            IF j = low THEN [arr |-> a, i |-> low - 1]
            ELSE LET b == loop[j - 1]
                 IN IF b.arr[j] < pivot
                    THEN [arr |-> Swap(b.arr, b.i + 1, j - 1), i |-> b.i + 1]
                    ELSE b
    IN [arr |-> loop[high].arr, pivot_index |-> loop[high].i + 1]

\* _partition: the Lomuto scheme; loop[j] is the state before the pass for
\* index j, so loop[high] is the state after the last pass
partition(a, low, high) ==
    LET pivot == a[high + 1]
        loop[j \in low..high] ==
            IF j = low THEN [arr |-> a, i |-> low - 1]
            ELSE LET b == loop[j - 1]
                 IN IF b.arr[j] < pivot
                    THEN [arr |-> Swap(b.arr, b.i + 1, j - 1), i |-> b.i + 1]
                    ELSE b
    IN [arr |-> Swap(loop[high].arr, loop[high].i + 1, high),
        pivot_index |-> loop[high].i + 1]

\* the body of one quicksort call, the pending calls kept as a stack of
\* (low, high): the call on top is run, and its two recursive calls take its
\* place, the left one on top
quicksort(a, stack) ==
    LET low == Head(stack)[1]
        high == Head(stack)[2]
    IN IF low < high
       THEN LET p == partition(a, low, high)
            IN [arr |-> p.arr,
                stack |-> <<<<low, p.pivot_index - 1>>,
                            <<p.pivot_index + 1, high>>>> \o Tail(stack)]
       ELSE [arr |-> a, stack |-> Tail(stack)]

\* join that does not wait
join_nowait(t) == TRUE

\* join that returns only once the caller of sort has returned as well, who
\* is himself joining the merger
join_circular(t) == threads[t] = "terminated" /\ threads.main = "done"

\* thread.join(): returns once the thread has terminated
join(t) == threads[t] = "terminated"

\* the caller's thread: sort() divides the list, starts the two sorters,
\* starts the merger, joins it and returns self.sorted_result
sort ==
    /\ alg = "sort"
    /\ \/ /\ threads.main = "divide"
          /\ LET mid == Len(data) \div 2
             IN /\ left_half' = SubSeq(data, 1, mid)
                /\ right_half' = SubSeq(data, mid + 1, Len(data))
          /\ threads' = [threads EXCEPT !.main = "start_left"]
          /\ UNCHANGED <<stacks, result, pc>>
       \/ /\ threads.main = "start_left"
          /\ threads' = [threads EXCEPT !.main = "start_right", !.left = "sorting"]
          /\ stacks' = [stacks EXCEPT !.left = <<<<0, Len(left_half) - 1>>>>]
          /\ UNCHANGED <<left_half, right_half, result, pc>>
       \/ /\ threads.main = "start_right"
          /\ threads' = [threads EXCEPT !.main = "start_merge", !.right = "sorting"]
          /\ stacks' = [stacks EXCEPT !.right = <<<<0, Len(right_half) - 1>>>>]
          /\ UNCHANGED <<left_half, right_half, result, pc>>
       \/ /\ threads.main = "start_merge"
          /\ threads' = [threads EXCEPT !.main = "join", !.merge = "join_left"]
          /\ UNCHANGED <<left_half, right_half, stacks, result, pc>>
       \/ /\ threads.main = "join"
          /\ join("merge")
          /\ threads' = [threads EXCEPT !.main = "done"]
          /\ result' = sorted_result
          /\ pc' = "done"
          /\ UNCHANGED <<left_half, right_half, stacks>>
    /\ UNCHANGED <<data, sorted_result, merge>>
    /\ UNCHANGED <<alg, edges, built, graph, heuristic, start, goal>>
    /\ UNCHANGED <<open, closed, g_costs, parent, steps, path, total_cost>>
    /\ UNCHANGED <<run, first>>
    /\ UNCHANGED <<tileVars, netVars, restVars>>

\* the left sorter: quicksort(self.left_half, 0, len(self.left_half) - 1)
sort_left_half ==
    /\ alg \in {"sort", "start_sorting"}
    /\ threads.left = "sorting"
    /\ IF stacks.left = <<>>
       THEN /\ threads' = [threads EXCEPT
                              !.left = IF alg = "start_sorting"
                                     THEN "log_completed" ELSE "terminated"]
            /\ UNCHANGED <<left_half, stacks>>
       ELSE LET q == quicksort(left_half, stacks.left)
            IN /\ left_half' = q.arr
               /\ stacks' = [stacks EXCEPT !.left = q.stack]
               /\ UNCHANGED threads
    /\ UNCHANGED <<data, right_half, sorted_result, merge, result>>
    /\ UNCHANGED <<alg, edges, built, graph, heuristic, start, goal>>
    /\ UNCHANGED <<open, closed, g_costs, parent, steps, path, total_cost, pc>>
    /\ UNCHANGED <<run, first, tileVars, netVars, restVars>>

\* the right sorter: quicksort(self.right_half, 0, len(self.right_half) - 1)
sort_right_half ==
    /\ alg \in {"sort", "start_sorting"}
    /\ threads.right = "sorting"
    /\ IF stacks.right = <<>>
       THEN /\ threads' = [threads EXCEPT
                              !.right = IF alg = "start_sorting"
                                     THEN "log_completed" ELSE "terminated"]
            /\ UNCHANGED <<right_half, stacks>>
       ELSE LET q == quicksort(right_half, stacks.right)
            IN /\ right_half' = q.arr
               /\ stacks' = [stacks EXCEPT !.right = q.stack]
               /\ UNCHANGED threads
    /\ UNCHANGED <<data, left_half, sorted_result, merge, result>>
    /\ UNCHANGED <<alg, edges, built, graph, heuristic, start, goal>>
    /\ UNCHANGED <<open, closed, g_costs, parent, steps, path, total_cost, pc>>
    /\ UNCHANGED <<run, first, tileVars, netVars, restVars>>

\* acquiring a lock that is taken whether it is held or not
acquire_nolock(l) == TRUE

\* self.lock.acquire(), the entry of "with self.lock": waits while the lock
\* is held
acquire(l) == ~l

\* the merger: joins the left sorter, joins the right sorter, merges the
\* halves one element per loop iteration, extends by what is left of each,
\* and stores the merged list; in SortingSystem it logs in between and
\* stores under the lock, which it takes and releases in that step
merge_sorted_halves ==
    /\ alg \in {"sort", "start_sorting"}
    /\ \/ /\ threads.merge = "join_left"
          /\ join("left")
          /\ threads' = [threads EXCEPT !.merge = "join_right"]
          /\ UNCHANGED <<merge, sorted_result>>
       \/ /\ threads.merge = "join_right"
          /\ join("right")
          /\ threads' = [threads EXCEPT
                            !.merge = IF alg = "start_sorting"
                                      THEN "log_both" ELSE "merging"]
          /\ merge' = [i |-> 0, j |-> 0, merged |-> <<>>]
          /\ UNCHANGED sorted_result
       \/ /\ threads.merge = "merging"
          /\ IF merge.i < Len(left_half) /\ merge.j < Len(right_half)
             THEN /\ merge' =
                        IF left_half[merge.i + 1] <= right_half[merge.j + 1]
                        THEN [merge EXCEPT
                                 !.merged = Append(@, left_half[merge.i + 1]),
                                 !.i = @ + 1]
                        ELSE [merge EXCEPT
                                 !.merged = Append(@, right_half[merge.j + 1]),
                                 !.j = @ + 1]
                  /\ UNCHANGED threads
             ELSE /\ merge' =
                        [merge EXCEPT
                            !.merged =
                                @ \o SubSeq(left_half, merge.i + 1, Len(left_half))
                                  \o SubSeq(right_half, merge.j + 1, Len(right_half))]
                  /\ threads' = [threads EXCEPT !.merge = "store"]
          /\ UNCHANGED sorted_result
       \/ /\ threads.merge = "store"
          /\ alg = "start_sorting" => acquire(lock)
          /\ sorted_result' = merge.merged
          /\ threads' = [threads EXCEPT
                            !.merge = IF alg = "start_sorting"
                                      THEN "log_final" ELSE "terminated"]
          /\ UNCHANGED merge
    /\ UNCHANGED <<data, left_half, right_half, stacks, result>>
    /\ UNCHANGED <<inputVars, searchVars, run, first, tileVars, netVars,
                   restVars>>

\* sort(data) is entered on a new sorter object
InitSort ==
    /\ alg = "sort"
    /\ data \in IntLists(MaxData)
    /\ left_half = <<>>
    /\ right_half = <<>>
    /\ sorted_result = <<>>
    /\ threads = [main |-> "divide", left |-> "unstarted", right |-> "unstarted",
                  merge |-> "unstarted"]
    /\ stacks = [left |-> <<>>, right |-> <<>>]
    /\ merge = [i |-> 0, j |-> 0, merged |-> <<>>]
    /\ result = <<>>
    /\ pc = "loop"
    /\ NoSearch
    /\ NoTile
    /\ NoNetwork
    /\ NoRest

NextSort ==
    \/ sort
    \/ sort_left_half
    \/ sort_right_half
    \/ merge_sorted_halves

SpecSort == InitSort /\ [][NextSort]_vars

\* the call sites of log_status of SortingSystem and where each goes on;
\* the site stands for the message, whose text holds no more than the site
\* and the lists of the object
AfterLog ==
    [log_total |-> "log_left", log_left |-> "log_right",
     log_right |-> "start_left",
     log_started |-> "sorting", log_completed |-> "terminated",
     log_waiting |-> "join_left", log_both |-> "merging",
     log_final |-> "terminated"]

\* the threads of a SortingSystem
SortThreads == {"main", "left", "right", "merge"}

\* log_status(message) in thread t, three steps: the lock is acquired; the
\* entry f"[{len(self.status_log)+1}] {message}" is formatted; the entry is
\* appended and the lock released
log_status ==
    /\ alg = "start_sorting"
    /\ \E t \in SortThreads :
          /\ threads[t] \in DOMAIN AfterLog
          /\ \/ /\ logging[t].at = "acquire"
                /\ acquire(lock)
                /\ lock' = TRUE
                /\ logging' = [logging EXCEPT ![t].at = "format"]
                /\ UNCHANGED <<status_log, threads>>
             \/ /\ logging[t].at = "format"
                /\ logging' = [logging EXCEPT
                                  ![t].at = "append",
                                  ![t].entry = [number |-> Len(status_log) + 1,
                                                thread |-> t,
                                                message |-> threads[t]]]
                /\ UNCHANGED <<status_log, lock, threads>>
             \/ /\ logging[t].at = "append"
                /\ status_log' = Append(status_log, logging[t].entry)
                /\ lock' = FALSE
                /\ logging' = [logging EXCEPT ![t].at = "acquire"]
                /\ threads' = [threads EXCEPT ![t] = AfterLog[threads[t]]]
    /\ UNCHANGED <<data, left_half, right_half, sorted_result, stacks, merge,
                   result>>
    /\ UNCHANGED <<inputVars, searchVars, run, first, tileVars, netVars,
                   colorVars, treeVars>>

\* SortingSystem.start_sorting(data) in the caller's thread: the lists are
\* reset and the data divided, three entries are logged (log_status), then
\* the three threads are started
start_sorting ==
    /\ alg = "start_sorting"
    /\ \/ /\ threads.main = "divide"
          /\ LET mid == Len(data) \div 2
             IN /\ left_half' = SubSeq(data, 1, mid)
                /\ right_half' = SubSeq(data, mid + 1, Len(data))
          /\ status_log' = <<>>
          /\ sorted_result' = <<>>
          /\ threads' = [threads EXCEPT !.main = "log_total"]
          /\ UNCHANGED stacks
       \/ /\ threads.main = "start_left"
          /\ threads' = [threads EXCEPT !.main = "start_right",
                                        !.left = "log_started"]
          /\ stacks' = [stacks EXCEPT !.left = <<<<0, Len(left_half) - 1>>>>]
          /\ UNCHANGED <<left_half, right_half, sorted_result, status_log>>
       \/ /\ threads.main = "start_right"
          /\ threads' = [threads EXCEPT !.main = "start_merge",
                                        !.right = "log_started"]
          /\ stacks' = [stacks EXCEPT !.right = <<<<0, Len(right_half) - 1>>>>]
          /\ UNCHANGED <<left_half, right_half, sorted_result, status_log>>
       \/ /\ threads.main = "start_merge"
          /\ threads' = [threads EXCEPT !.main = "join",
                                        !.merge = "log_waiting"]
          /\ UNCHANGED <<left_half, right_half, sorted_result, status_log,
                         stacks>>
    /\ UNCHANGED <<data, merge, result, lock, logging>>
    /\ UNCHANGED <<inputVars, searchVars, run, first, tileVars, netVars,
                   colorVars, treeVars>>

\* SortingSystem.wait_for_completion(): joins the merger and returns
\* self.sorted_list
wait_for_completion ==
    /\ alg = "start_sorting"
    /\ threads.main = "join"
    /\ join("merge")
    /\ threads' = [threads EXCEPT !.main = "done"]
    /\ result' = sorted_result
    /\ pc' = "done"
    /\ UNCHANGED <<data, left_half, right_half, sorted_result, stacks, merge>>
    /\ UNCHANGED <<alg, edges, built, graph, heuristic, start, goal>>
    /\ UNCHANGED <<open, closed, g_costs, parent, steps, path, total_cost>>
    /\ UNCHANGED <<run, first, tileVars, netVars, restVars>>

\* a call of the function cls on one of the lists of at most k integers:
\* sort on a new MultithreadedMergeSort, start_sorting on a new SortingSystem
InitSortOn(cls, k) ==
    /\ alg \in cls
    /\ data \in IntLists(k)
    /\ left_half = <<>>
    /\ right_half = <<>>
    /\ sorted_result = <<>>
    /\ threads = [main |-> "divide", left |-> "unstarted", right |-> "unstarted",
                  merge |-> "unstarted"]
    /\ stacks = [left |-> <<>>, right |-> <<>>]
    /\ merge = [i |-> 0, j |-> 0, merged |-> <<>>]
    /\ result = <<>>
    /\ status_log = <<>>
    /\ lock = FALSE
    /\ logging = IF alg = "start_sorting"
                 THEN [t \in SortThreads |->
                         [at |-> "acquire",
                          entry |-> [number |-> 0, thread |-> t,
                                     message |-> "unstarted"]]]
                 ELSE <<>>
    /\ pc = "loop"
    /\ NoSearch
    /\ NoTile
    /\ NoNetwork
    /\ NoColoring
    /\ NoTree

\* start_sorting(data) is entered on a new SortingSystem
InitSortingSystem == InitSortOn({"start_sorting"}, MaxData - 1)

NextSortingSystem ==
    \/ start_sorting
    \/ log_status
    \/ sort_left_half
    \/ sort_right_half
    \/ merge_sorted_halves
    \/ wait_for_completion

SpecSortingSystem == InitSortingSystem /\ [][NextSortingSystem]_vars

\* both classes on the lists of at most MaxData - 2 integers
InitSortFair == InitSortOn({"sort", "start_sorting"}, MaxData - 2)

NextSortFair ==
    \/ sort
    \/ start_sorting
    \/ log_status
    \/ sort_left_half
    \/ sort_right_half
    \/ merge_sorted_halves
    \/ wait_for_completion

\* whenever some thread can run, some thread runs
SpecSortFair == InitSortFair /\ [][NextSortFair]_vars /\ WF_vars(NextSortFair)

----------------------------------------------------------------------------
(* Q(3).py: the emergency simulator, its network and its path finder *)

\* how many roads are marked vulnerable at once
MaxVulnerable == 2

\* _build_graph: the roads (u, v, weight) of the initial network
network_graph ==
    {<<0, 1, 4>>, <<0, 2, 2>>, <<1, 2, 1>>, <<1, 3, 5>>,
     <<2, 3, 8>>, <<2, 4, 10>>, <<3, 4, 2>>, <<3, 5, 6>>,
     <<4, 5, 3>>, <<5, 6, 1>>, <<6, 7, 4>>, <<4, 7, 7>>}

\* graph.nodes: add_edge creates the two ends of every road
get_nodes == UNION {{e[1], e[2]} : e \in network_graph}

\* (min(u, v), max(u, v)): the form vulnerable_edges keeps a road in
EdgeKey(u, v) == IF u <= v THEN <<u, v>> ELSE <<v, u>>

\* nx.Graph.has_edge: the graph is undirected
has_edge(g, u, v) == \E e \in g : EdgeKey(e[1], e[2]) = EdgeKey(u, v)

\* remove_edge taking the road out only when it is kept as (u, v)
remove_edge_directed(g, u, v) == {e \in g : <<e[1], e[2]>> # <<u, v>>}

\* nx.Graph.remove_edge
remove_edge(g, u, v) == {e \in g : EdgeKey(e[1], e[2]) # EdgeKey(u, v)}

\* the weight attribute of the road u - v
edge_weight(g, u, v) ==
    (CHOOSE e \in g : EdgeKey(e[1], e[2]) = EdgeKey(u, v))[3]

\* the simple paths of g that extend p to t
RECURSIVE PathsFrom(_, _, _)
PathsFrom(g, p, t) ==
    IF p[Len(p)] = t THEN {p}
    ELSE UNION {PathsFrom(g, Append(p, m), t) :
                  m \in {n \in get_nodes : /\ has_edge(g, p[Len(p)], n)
                                           /\ \A i \in 1..Len(p) : p[i] # n}}

\* the sum of the weights along p
RECURSIVE path_weight(_, _)
path_weight(g, p) ==
    IF Len(p) < 2 THEN 0
    ELSE edge_weight(g, p[1], p[2]) + path_weight(g, Tail(p))

\* nx.shortest_path(g, s, t, weight='weight'): one of the paths of least
\* weight (the weights are positive, such a path is simple); the empty set
\* stands for NetworkXNoPath
shortest_path(g, s, t) ==
    LET all == PathsFrom(g, <<s>>, t)
    IN {p \in all : \A q \in all : path_weight(g, p) <= path_weight(g, q)}

\* the loop that removes the edges of a path, or of a set of marked roads
RECURSIVE RemovePath(_, _)
RemovePath(g, p) ==
    IF Len(p) < 2 THEN g
    ELSE RemovePath(remove_edge(g, p[1], p[2]), Tail(p))

\* self.network of the path finder: SimulatorUI builds it as
\* PathFinder(self.network.graph, self.network.vulnerable_edges), so it is the
\* set of marked roads itself and not the network that owns the set
path_finder_network == vulnerable_edges

\* NetworkGraph.mark_vulnerable_edge, called by the dialog for a road of the
\* graph
mark_vulnerable_edge ==
    /\ alg = "simulator"
    /\ \E u \in get_nodes, v \in get_nodes :
          /\ has_edge(network_graph, u, v)
          /\ Cardinality(vulnerable_edges \cup {EdgeKey(u, v)}) <= MaxVulnerable
          /\ vulnerable_edges' = vulnerable_edges \cup {EdgeKey(u, v)}
    /\ UNCHANGED <<source, target, path1, path2, found>>
    /\ UNCHANGED <<inputVars, searchVars, run, first, tileVars, sortVars,
                   restVars>>

\* NetworkGraph.unmark_vulnerable_edge, called by the dialog for a marked road
unmark_vulnerable_edge ==
    /\ alg = "simulator"
    /\ \E u \in get_nodes, v \in get_nodes :
          /\ EdgeKey(u, v) \in vulnerable_edges
          /\ vulnerable_edges' = vulnerable_edges \ {EdgeKey(u, v)}
    /\ UNCHANGED <<source, target, path1, path2, found>>
    /\ UNCHANGED <<inputVars, searchVars, run, first, tileVars, sortVars,
                   restVars>>

\* PathFinder.find_disjoint_paths(src, tgt) as _on_reliable_path_click calls
\* it, avoid_vulnerable left at True. A non-empty self.network is truthy and
\* is a set: reading its attribute vulnerable_edges raises AttributeError,
\* which the outer except turns into (None, None, False). An empty one is
\* falsy and the working graph is the whole graph.
find_disjoint_paths ==
    /\ alg = "simulator"
    /\ \E src \in get_nodes, tgt \in get_nodes :
          /\ source' = src
          /\ target' = tgt
          /\ LET working_graph == network_graph
                 firsts == shortest_path(working_graph, src, tgt)
             IN IF path_finder_network # {} \/ firsts = {}
                THEN /\ path1' = None
                     /\ path2' = None
                     /\ found' = FALSE
                ELSE \E p1 \in firsts :
                        LET temp_graph == RemovePath(working_graph, p1)
                            seconds == shortest_path(temp_graph, src, tgt)
                        IN /\ path1' = p1
                           /\ IF seconds = {}
                              THEN /\ path2' = None
                                   /\ found' = FALSE
                              ELSE /\ found' = TRUE
                                   /\ \E p2 \in seconds : path2' = p2
    /\ UNCHANGED vulnerable_edges
    /\ UNCHANGED <<inputVars, searchVars, run, first, tileVars, sortVars,
                   restVars>>

\* SimulatorUI.__init__: a fresh network, no road marked, no query made
InitSim ==
    /\ alg = "simulator"
    /\ pc = "loop"
    /\ NoSearch
    /\ NoTile
    /\ NoSort
    /\ NoNetwork
    /\ NoRest

\* the event loop of the simulator
NextSim ==
    \/ mark_vulnerable_edge
    \/ unmark_vulnerable_edge
    \/ find_disjoint_paths

SpecSim == InitSim /\ [][NextSim]_vars

----------------------------------------------------------------------------
(* GraphColorer.color_graph (Q_(5.a).py, Q(3).py): greedy coloring of the *)
(* nodes in order of descending degree. A graph is a record of its nodes, *)
(* in the order they were added, and its edges (u, v) with u < v.         *)

\* how many edges of the complete graph a dense input graph may lack
MaxMissing == 1

\* color_palette
color_palette ==
    <<"red", "blue", "green", "yellow", "purple", "orange", "cyan">>

\* the nodes of the small and of the dense input graphs
SmallHubs == <<0, 1, 2, 3>>
DenseHubs == <<0, 1, 2, 3, 4, 5, 6, 7>>

\* the edges of the complete graph on the nodes ns
AllEdges(ns) ==
    {<<ns[p[1]], ns[p[2]]>> :
        p \in {q \in (DOMAIN ns) \X (DOMAIN ns) : ns[q[1]] < ns[q[2]]}}

\* the sets of at most k edges of the complete graph on DenseHubs
RECURSIVE Lacking(_)
Lacking(k) ==
    IF k = 0 THEN {{}}
    ELSE Lacking(k - 1) \cup
         {x \cup {e} : x \in Lacking(k - 1), e \in AllEdges(DenseHubs)}

\* the graphs color_graph is called with: every graph on SmallHubs, the
\* complete graph on DenseHubs less at most MaxMissing edges, and the
\* network of the simulator
ColoredGraphs ==
    {[nodes |-> SmallHubs, edges |-> es] : es \in SUBSET AllEdges(SmallHubs)}
    \cup {[nodes |-> DenseHubs, edges |-> AllEdges(DenseHubs) \ m] :
            m \in Lacking(MaxMissing)}
    \cup {[nodes |-> DenseHubs,
           edges |-> {EdgeKey(e[1], e[2]) : e \in network_graph}]}

\* graph.neighbors(n)
neighbors(g, n) ==
    {m \in {g.nodes[i] : i \in DOMAIN g.nodes} :
        <<m, n>> \in g.edges \/ <<n, m>> \in g.edges}

\* graph.degree(n)
degree(g, n) == Cardinality(neighbors(g, n))

\* sorted(graph.nodes(), key=lambda x: -graph.degree(x)): a stable sort, so
\* nodes of equal degree keep the order they were added in
RECURSIVE InsertByDegree(_, _, _)
InsertByDegree(g, l, n) ==
    IF l = <<>> THEN <<n>>
    ELSE IF degree(g, l[1]) < degree(g, n) THEN <<n>> \o l
    ELSE <<l[1]>> \o InsertByDegree(g, Tail(l), n)

RECURSIVE SortByDegree(_, _, _)
SortByDegree(g, done, todo) ==
    IF todo = <<>> THEN done
    ELSE SortByDegree(g, InsertByDegree(g, done, todo[1]), Tail(todo))

\* stands for "no color_id": the inner loop ended without a break
NoColor == 0 - 1

\* the first color_id of range(len(color_palette)) not in used
FirstFree(used) ==
    LET free == {c \in 0..(Len(color_palette) - 1) : c \notin used}
    IN IF free = {} THEN NoColor
       ELSE CHOOSE c \in free : \A d \in free : c <= d

\* color_graph: one pass of "for node in sorted_nodes" per step, then the
\* return
color_graph ==
    /\ alg = "color_graph"
    /\ pc = "loop"
    /\ IF sorted_nodes = <<>>
       THEN /\ pc' = "done"
            /\ UNCHANGED <<sorted_nodes, colors>>
       ELSE LET node == Head(sorted_nodes)
                neighbor_colors ==
                    {colors[neighbor] :
                        neighbor \in neighbors(colored_graph, node)
                                       \cap DOMAIN colors}
                color_id == FirstFree(neighbor_colors)
            IN /\ colors' = IF color_id = NoColor THEN colors
                            ELSE [n \in DOMAIN colors \cup {node} |->
                                    IF n = node THEN color_id ELSE colors[n]]
               /\ sorted_nodes' = Tail(sorted_nodes)
               /\ UNCHANGED pc
    /\ UNCHANGED colored_graph
    /\ UNCHANGED <<alg, edges, built, graph, heuristic, start, goal>>
    /\ UNCHANGED <<open, closed, g_costs, parent, steps, path, total_cost>>
    /\ UNCHANGED <<run, first, tileVars, sortVars, netVars, treeVars, logVars>>

\* color_graph(graph) is entered
InitColoring ==
    /\ alg = "color_graph"
    /\ colored_graph \in ColoredGraphs
    /\ sorted_nodes = SortByDegree(colored_graph, <<>>, colored_graph.nodes)
    /\ colors = <<>>
    /\ pc = "loop"
    /\ NoSearch
    /\ NoTile
    /\ NoSort
    /\ NoNetwork
    /\ NoTree
    /\ NoLog

NextColoring == color_graph

SpecColoring == InitColoring /\ [][NextColoring]_vars

----------------------------------------------------------------------------
(* ServiceCenterTree (Q(3).py). A TreeNode is the pair of its left and its *)
(* right child, None the empty tuple; the value of a node is only printed. *)

\* the trees minServiceCenters is given have at most MaxNodes nodes
MaxNodes == 6

\* the binary trees of exactly n nodes
RECURSIVE TreesOf(_)
TreesOf(n) ==
    IF n = 0 THEN {None}
    ELSE UNION {{<<l, r>> : l \in TreesOf(k), r \in TreesOf(n - 1 - k)} :
                  k \in 0..(n - 1)}

\* ServiceCenterTree.dfs with a None child taken as one that needs service
RECURSIVE dfs_nullneeds(_)
dfs_nullneeds(node) ==
    IF node = None THEN [state |-> 0, placed |-> 0]
    ELSE LET left_state == dfs_nullneeds(node[1])
             right_state == dfs_nullneeds(node[2])
             below == left_state.placed + right_state.placed
         IN IF left_state.state = 0 \/ right_state.state = 0
            THEN [state |-> 1, placed |-> below + 1]
            ELSE IF left_state.state = 1 \/ right_state.state = 1
            THEN [state |-> 2, placed |-> below]
            ELSE [state |-> 0, placed |-> below]

\* ServiceCenterTree.dfs(node): the state it returns (0 needs service, 1 has a service center,
\* 2 is covered) and by how much it raises self.service_centers
RECURSIVE ServiceCenterTree_dfs(_)
ServiceCenterTree_dfs(node) ==
    IF node = None THEN [state |-> 2, placed |-> 0]
    ELSE LET left_state == ServiceCenterTree_dfs(node[1])
             right_state == ServiceCenterTree_dfs(node[2])
             below == left_state.placed + right_state.placed
         IN IF left_state.state = 0 \/ right_state.state = 0
            THEN [state |-> 1, placed |-> below + 1]
            ELSE IF left_state.state = 1 \/ right_state.state = 1
            THEN [state |-> 2, placed |-> below]
            ELSE [state |-> 0, placed |-> below]

\* minServiceCenters(root); the value returned is self.service_centers
minServiceCenters ==
    /\ alg = "minServiceCenters"
    /\ pc = "loop"
    /\ LET root_state == ServiceCenterTree_dfs(root)
       IN service_centers' =
              service_centers + root_state.placed
              + (IF root_state.state = 0 THEN 1 ELSE 0)
    /\ pc' = "done"
    /\ UNCHANGED root
    /\ UNCHANGED <<alg, edges, built, graph, heuristic, start, goal>>
    /\ UNCHANGED <<open, closed, g_costs, parent, steps, path, total_cost>>
    /\ UNCHANGED <<run, first, tileVars, sortVars, netVars, colorVars, logVars>>

\* a fresh ServiceCenterTree is about to be given a tree
InitTree ==
    /\ alg = "minServiceCenters"
    /\ root \in UNION {TreesOf(n) : n \in 0..MaxNodes}
    /\ service_centers = 0
    /\ pc = "loop"
    /\ NoSearch
    /\ NoTile
    /\ NoSort
    /\ NoNetwork
    /\ NoColoring
    /\ NoLog

NextTree == minServiceCenters

SpecTree == InitTree /\ [][NextTree]_vars

----------------------------------------------------------------------------
(* Reference notions of the graph the claims are stated with *)

SetMin(S) == CHOOSE x \in S : \A y \in S : x <= y

RECURSIVE SumDist(_)
SumDist(es) == IF es = <<>> THEN 0 ELSE es[1][3] + SumDist(Tail(es))

\* a cost larger than that of any simple path: stands for "no path"
Far == 1 + SumDist(edges)

RECURSIVE CheapestWithin(_, _, _)
\* the cost of a cheapest path from n to t of at most k edges, Far if none
CheapestWithin(n, t, k) ==
    IF k = 0 THEN (IF n = t THEN 0 ELSE Far)
    ELSE SetMin({CheapestWithin(n, t, k - 1)} \cup
                {LET c == CheapestWithin(nb[1], t, k - 1)
                 IN IF c < Far THEN nb[2] + c ELSE Far : nb \in Range(graph[n])})

\* the cost of a cheapest path from n to the goal (the Dijkstra cost)
TrueCost(n) == CheapestWithin(n, goal, Cardinality(Nodes) - 1)

RECURSIVE HopsWithin(_, _, _)
\* whether a path of at most k edges leads from n to t
HopsWithin(n, t, k) ==
    IF n = t THEN TRUE
    ELSE IF k = 0 THEN FALSE
    ELSE \E nb \in Range(graph[n]) : HopsWithin(nb[1], t, k - 1)

Reachable(n, t) == HopsWithin(n, t, Cardinality(Nodes) - 1)

\* the least number of edges of a path from n to t (t reachable from n)
MinHops(n, t) ==
    SetMin({k \in 0..(Cardinality(Nodes) - 1) : HopsWithin(n, t, k)})

\* h never exceeds the cheapest remaining cost to the goal
Admissible ==
    \A n \in Nodes : Reachable(n, goal) => heuristic[n] <= TrueCost(n)

\* h(goal) = 0 and h(u) <= c(u, v) + h(v) along every edge
Consistent ==
    /\ heuristic[goal] = 0
    /\ \A u \in Nodes : \A nb \in Range(graph[u]) :
           heuristic[u] <= nb[2] + heuristic[nb[1]]

\* p is a path of the graph: every consecutive pair is joined by an edge
IsPath(p) ==
    \A i \in 1..(Len(p) - 1) : \E nb \in Range(graph[p[i]]) : nb[1] = p[i + 1]

\* the cost of path p along the cheapest edge of every hop
PathCost(p) ==
    LET hop(i) == SetMin({nb[2] : nb \in {x \in Range(graph[p[i]]) :
                                             x[1] = p[i + 1]}})
        sum[i \in 0..(Len(p) - 1)] == IF i = 0 THEN 0 ELSE sum[i - 1] + hop(i)
    IN sum[Len(p) - 1]

AStarDone == pc = "done" /\ alg \in {"astar", "a_star_search"}

----------------------------------------------------------------------------
(* C1 *)

\* C1 as stated: with an admissible heuristic and the goal reachable, the
\* cost A-star returns is the cost of a cheapest start-to-goal path.
C1_AdmissibleOptimal ==
    (AStarDone /\ Admissible /\ Reachable(start, goal))
        => total_cost = TrueCost(start)

\* C1 amended: with a consistent heuristic (h(goal) = 0 and
\* h(u) <= c(u, v) + h(v) along every edge) and the goal reachable, A-star
\* returns a path and its cost is the cost of a cheapest start-to-goal path.
C1_ConsistentOptimal ==
    (AStarDone /\ Consistent /\ Reachable(start, goal))
        => /\ path # None
           /\ total_cost = TrueCost(start)

\* A-star has returned, under a consistent heuristic that is not all zero,
\* a path of two or more edges although an edge joins start and goal.
C1_Witness ==
    /\ AStarDone
    /\ Consistent
    /\ \E n \in Nodes : heuristic[n] > 0
    /\ Len(path) >= 3
    /\ \E nb \in Range(graph[start]) : nb[1] = goal

----------------------------------------------------------------------------
(* C2 .. C7 *)

\* p leads from start to goal along edges of the graph
ValidPath(p) ==
    /\ p # None
    /\ p[1] = start
    /\ Last(p) = goal
    /\ IsPath(p)

\* C2: when the goal is reachable, the path bfs / bfs_with_containers
\* returns is a start-to-goal path with the least number of edges,
\* whatever the edge costs.
C2_BfsMinHops ==
    (pc = "done" /\ alg \in {"bfs", "bfs_with_containers"}
                 /\ Reachable(start, goal))
        => /\ ValidPath(path)
           /\ Len(path) - 1 = MinHops(start, goal)

\* BFS has returned a path of two or more edges that costs more than the
\* cheapest path: the costs played no part.
C2_Witness ==
    /\ pc = "done"
    /\ alg \in {"bfs", "bfs_with_containers"}
    /\ Len(path) >= 3
    /\ PathCost(path) > TrueCost(start)

\* C3: every call of dfs, bfs and astar eventually returns: the goal is
\* closed or OPEN runs empty.
C3_Terminates == <>(pc = "done")

\* a search has returned None after closing three or more cities: OPEN
\* ran empty
C3_Witness ==
    /\ pc = "done"
    /\ alg \in {"dfs", "bfs", "astar"}
    /\ path = None
    /\ Cardinality(closed) >= 3

\* C4: when the goal is reachable, dfs and solve_dfs return a path that
\* begins with start, ends with goal and follows edges of the graph.
C4_DfsPathValid ==
    (pc = "done" /\ alg \in {"dfs", "solve_dfs"} /\ Reachable(start, goal))
        => ValidPath(path)

\* solve_dfs has returned a path of two or more edges although the goal is
\* a neighbor of start: parent[goal], first set to start, was overwritten.
C4_Witness ==
    /\ pc = "done"
    /\ alg = "solve_dfs"
    /\ Len(path) >= 3
    /\ \E nb \in Range(graph[start]) : nb[1] = goal

\* C5: a search with start = goal never pushes a neighbor, and returns the
\* path [start], with cost 0 where a cost is returned and with a trace of
\* exactly one entry where a trace is kept.
C5_TrivialSearch ==
    start = goal
        => /\ \A i \in DOMAIN open : open[i].node = start
           /\ closed \subseteq {start}
           /\ pc = "done"
                => /\ path = <<start>>
                   /\ open = <<>>
                   /\ alg \in {"astar", "a_star_search"} => total_cost = 0
                   /\ alg \in {"astar", "bfs", "dfs"} => Len(steps) = 1

\* a search from a city with neighbors to itself has returned
C5_Witness ==
    /\ start = goal
    /\ pc = "done"
    /\ alg \in {"astar", "bfs", "dfs"}
    /\ graph[start] # <<>>

\* C6: when the goal is not reachable from start, the search returns None
\* as its path.
C6_NoPath ==
    (pc = "done" /\ ~Reachable(start, goal)) => path = None

\* a search has returned with start and goal in different components,
\* start's component holding two or more cities
C6_Witness ==
    /\ pc = "done"
    /\ ~Reachable(start, goal)
    /\ Cardinality(closed) >= 2

----------------------------------------------------------------------------
(* C8, C9, C10 *)

RECURSIVE score(_, _, _)
\* the recurrence: 0 when right - left < 2, otherwise the maximum over the
\* split points k of score(l, k) + score(k, r) + arr[l] * arr[k] * arr[r]
\* (indices 0-based, as in the code)
score(a, l, r) ==
    IF r - l < 2 THEN 0
    ELSE LET val(k) == score(a, l, k) + score(a, k, r)
                          + a[l + 1] * a[k + 1] * a[r + 1]
             k0 == CHOOSE k \in (l + 1)..(r - 1) :
                       \A j \in (l + 1)..(r - 1) : val(j) <= val(k)
         IN val(k0)

TileDone == alg = "strategic_tile_shatter" /\ pc = "done"

\* C8: for a non-empty sequence of positive integers the function returns
\* score(0, n - 1) of the padded array; for [3, 1, 5, 8] that is 167.
C8_ReturnsScore ==
    (TileDone /\ Len(Tiles) >= 1)
        => /\ points = score(arr, 0, Len(arr) - 1)
           /\ (Tiles = <<3, 1, 5, 8>> => points = 167)

\* the call with [3, 1, 5, 8] has returned 167
C8_Witness == TileDone /\ Tiles = <<3, 1, 5, 8>> /\ points = 167

\* C9: for a single tile [x] the function returns 1 * x * 1 = x.
C9_SingleTile ==
    (TileDone /\ Len(Tiles) = 1)
        => /\ points = arr[1] * arr[2] * arr[3]
           /\ points = Tiles[1]

\* the call with [5] has returned 5
C9_Witness == TileDone /\ Tiles = <<5>> /\ points = 5

----------------------------------------------------------------------------
(* C11 .. C17 *)

\* the construction loop is about to consume the edge e
Adding(e) == alg = "build" /\ pc = "loop" /\ built < Len(edges)
                 /\ e = edges[built + 1]

C12_MissingHeuristicIsZero ==
    alg \in {"astar", "a_star_search"}
        => /\ pc # "raised"
           /\ \A k \in DOMAIN open :
                  open[k].node \notin DOMAIN heuristic => open[k].f = open[k].g

\* C12 amended: the heuristic table is indexed without a default: every
\* city astar or a_star_search holds in OPEN has an entry, and its f is g
\* plus that entry; a call whose start has no entry raises KeyError before
\* its first iteration; a call returns a path only through cities with
\* entries, and returns the no-path result only when every city reachable
\* from start has an entry.
C12_MissingHeuristicRaises ==
    alg \in {"astar", "a_star_search"}
        => /\ \A k \in DOMAIN open :
                  /\ open[k].node \in DOMAIN heuristic
                  /\ open[k].f = open[k].g + heuristic[open[k].node]
           /\ start \notin DOMAIN heuristic => pc = "raised" /\ closed = {}
           /\ (pc = "done" /\ path # None)
                  => Range(path) \subseteq DOMAIN heuristic
           /\ (pc = "done" /\ path = None)
                  => \A n \in Nodes : Reachable(start, n) => n \in DOMAIN heuristic

\* a call whose start has an entry raised KeyError after closing two or
\* more cities: it met a neighbor without entry
C12_Witness ==
    /\ alg \in {"astar", "a_star_search"}
    /\ pc = "raised"
    /\ start \in DOMAIN heuristic
    /\ Cardinality(closed) >= 2

\* C13: a search that starts at, or reaches, a city without entry in the
\* adjacency map takes it as a city without neighbors: with start # goal no
\* search raises a lookup error.
C13_UnknownCityNoNeighbors ==
    start # goal => pc # "raised"

\* C14: when A-star runs OPEN empty without closing the goal, the cost it
\* returns with the no-path value is not a finite number.
C14_NoPathCostNotFinite ==
    (AStarDone /\ path = None) => total_cost = Inf

\* C15: the adjacency map a search runs on is symmetric: for every entry
\* u -> v with cost w there is an entry v -> u with the same cost w.
C15_Symmetric ==
    \A u \in DOMAIN graph : \A nb \in Range(graph[u]) :
        /\ nb[1] \in DOMAIN graph
        /\ <<u, nb[2]>> \in Range(graph[nb[1]])

\* C16: adding the edge (u, v, cost), cost not negative, a second time
\* leaves the adjacency map exactly as it was after the first addition.
C16_SameEdgeIdempotent ==
    [][\A e \in Range(edges) :
          (Adding(e) /\ e[3] >= 0 /\ \E i \in 1..built : edges[i] = e)
              => graph' = graph]_vars

\* the number of entries of list l that name the neighbor v
Entries(l, v) == Cardinality({i \in DOMAIN l : l[i][1] = v})

\* C16 amended: every addition appends, a repeated one too: after any
\* sequence of additions the list of u holds as many entries for the
\* neighbor v as edges joining u and v were added, so the same edge added
\* twice leaves two entries for v in u's list and two for u in v's.
C16_DuplicatesKept ==
    alg = "build"
        => \A u \in Nodes : \A v \in Nodes \ {u} :
              Entries(graph[u], v)
                  = Cardinality({i \in 1..built :
                                    {edges[i][1], edges[i][2]} = {u, v}})

\* the same edge, of cost 1 or 2, has been added twice
C16_Witness ==
    /\ alg = "build"
    /\ built = 2
    /\ edges[1] = edges[2]
    /\ edges[1][3] > 0

\* the OPEN entry the next iteration of astar, bfs or dfs pops
Popped ==
    IF alg = "astar" THEN open[HeapMin(open)]
    ELSE IF alg = "bfs" THEN Head(open)
    ELSE Last(open)

\* C17: in every run of bfs, dfs and astar CLOSED only grows, the trace is
\* only appended to and names every closed city exactly once, and popping
\* an entry of an already closed city closes nothing, adds no trace entry
\* and pushes nothing: OPEN loses that one entry, whatever g it carries.
C17_ClosedOnce ==
    [][(alg \in {"bfs", "dfs", "astar"} /\ run' = run)
          => /\ closed \subseteq closed'
             /\ \A i \in DOMAIN steps : i \in DOMAIN steps' /\ steps'[i] = steps[i]
             /\ \A i, j \in DOMAIN steps' :
                    steps'[i].current = steps'[j].current => i = j
             /\ closed' = {steps'[i].current : i \in DOMAIN steps'}
             /\ (pc = "loop" /\ open # <<>> /\ Popped.node \in closed)
                    => /\ closed' = closed
                       /\ steps' = steps
                       /\ Len(open') = Len(open) - 1
                       /\ Range(open') \subseteq Range(open)]_vars

\* astar is about to pop an entry of a city it has closed, with two or more
\* cities closed and other entries waiting in OPEN
C17_Witness ==
    /\ alg = "astar"
    /\ pc = "loop"
    /\ Len(open) >= 2
    /\ Popped.node \in closed
    /\ Cardinality(closed) >= 2

----------------------------------------------------------------------------
(* C18, C19 *)

\* the merger has passed both joins: it reads the halves or has read them
Merging == threads.merge \in {"merging", "store", "terminated"}

\* C18: under every interleaving, the merge thread reads left_half and
\* right_half and builds the merged list only after both sorting threads
\* have terminated, and neither half changes from then on.
C18_MergeAfterSorters ==
    [][(alg = "sort" /\ Merging')
          => /\ threads'.left = "terminated"
             /\ threads'.right = "terminated"
             /\ Merging => (left_half' = left_half /\ right_half' = right_half)]_vars

\* the merger has appended an element of each half, and the left half was
\* not in order when it was cut off the list
C18_Witness ==
    /\ alg = "sort"
    /\ threads.merge = "merging"
    /\ merge.i >= 1
    /\ merge.j >= 1
    /\ left_half # SubSeq(data, 1, Len(left_half))

RECURSIVE InsertInt(_, _)
\* x put into the ascending list s
InsertInt(x, s) ==
    IF s = <<>> THEN <<x>>
    ELSE IF x <= Head(s) THEN <<x>> \o s
    ELSE <<Head(s)>> \o InsertInt(x, Tail(s))

RECURSIVE sorted(_)
\* sorted(l): the elements of l in ascending order
sorted(l) == IF l = <<>> THEN <<>> ELSE InsertInt(Head(l), sorted(Tail(l)))

\* C19: for every list (the empty one, one element, duplicates) and every
\* interleaving of the threads, sort(data) returns sorted(data).
C19_ReturnsSorted ==
    (alg = "sort" /\ threads.main = "done") => result = sorted(data)

\* sort has returned a list of five elements with a duplicate, which was
\* not in order
C19_Witness ==
    /\ alg = "sort"
    /\ threads.main = "done"
    /\ Len(data) = 5
    /\ Cardinality(Range(data)) < 5
    /\ data # sorted(data)
    /\ result = sorted(data)

----------------------------------------------------------------------------
(* C20 *)

\* the network with the roads that are marked vulnerable taken out
SafeGraph ==
    {e \in network_graph : EdgeKey(e[1], e[2]) \notin vulnerable_edges}

\* C20: whenever source and target are connected in the network without its
\* vulnerable roads, find_disjoint_paths called through the simulator's path
\* finder returns a primary path from source to target that uses no road
\* that is vulnerable at the time of the call
C20_PrimaryAvoidsVulnerable ==
    [][(find_disjoint_paths /\ PathsFrom(SafeGraph, <<source'>>, target') # {})
         => /\ path1' # None
            /\ path1' \in PathsFrom(network_graph, <<source'>>, target')
            /\ \A i \in 1..(Len(path1') - 1) :
                  EdgeKey(path1'[i], path1'[i + 1]) \notin vulnerable_edges]_vars

----------------------------------------------------------------------------
(* C21 *)

\* the roads a path runs over, each in the form (min, max)
PathEdges(p) == {EdgeKey(p[i], p[i + 1]) : i \in 1..(Len(p) - 1)}

\* p leads from s to t over roads of g
IsRoute(g, p, s, t) ==
    /\ p # None
    /\ p[1] = s
    /\ p[Len(p)] = t
    /\ \A i \in 1..(Len(p) - 1) : has_edge(g, p[i], p[i + 1])

\* C21: whenever find_disjoint_paths returned two paths (found = True), both
\* lead from source to target and no road of the undirected graph is on both,
\* in either direction
C21_EdgeDisjoint ==
    (alg = "simulator" /\ found)
        => /\ IsRoute(network_graph, path1, source, target)
           /\ IsRoute(network_graph, path2, source, target)
           /\ PathEdges(path1) \cap PathEdges(path2) = {}

\* two paths were returned that run through a common city between the ends
C21_Witness ==
    /\ alg = "simulator"
    /\ found
    /\ source > target
    /\ Len(path1) >= 3
    /\ \E i \in 2..(Len(path1) - 1), j \in 2..(Len(path2) - 1) :
          path1[i] = path2[j]

----------------------------------------------------------------------------
(* C22 *)

\* C22: for every graph passed to color_graph, every node receives a color
\* and no two adjacent nodes receive the same color
C22_ProperColoring ==
    (alg = "color_graph" /\ pc = "done")
        => /\ \A i \in DOMAIN colored_graph.nodes :
                 colored_graph.nodes[i] \in DOMAIN colors
           /\ \A e \in colored_graph.edges : colors[e[1]] # colors[e[2]]

----------------------------------------------------------------------------
(* C23 *)

\* the nodes of a tree, each named by the way to it from the root (1 left,
\* 2 right)
RECURSIVE NodesOf(_)
NodesOf(t) ==
    IF t = None THEN {}
    ELSE {<<>>} \cup {<<1>> \o p : p \in NodesOf(t[1])}
                \cup {<<2>> \o p : p \in NodesOf(t[2])}

\* p is the parent of q
ParentOf(p, q) == Len(q) = Len(p) + 1 /\ SubSeq(q, 1, Len(p)) = p

\* every node of t is in S, or is the parent or a child of a node in S
Serves(S, t) ==
    \A p \in NodesOf(t) :
        p \in S \/ \E q \in S : ParentOf(p, q) \/ ParentOf(q, p)

\* the least size of a set of nodes that serves t
MinCenters(t) ==
    LET sizes == {Cardinality(S) : S \in {X \in SUBSET NodesOf(t) : Serves(X, t)}}
    IN CHOOSE n \in sizes : \A m \in sizes : n <= m

\* C23: minServiceCenters on a fresh ServiceCenterTree returns the minimum
\* size of a set of nodes such that every node of the tree is in the set or
\* is the parent or a child of a node in the set
C23_MinimumCenters ==
    (alg = "minServiceCenters" /\ pc = "done")
        => service_centers = MinCenters(root)

\* a tree with both kinds of children was answered with two or more
\* centers, one of them placed at the root because the root was left in
\* need of service
C23_Witness ==
    /\ alg = "minServiceCenters"
    /\ pc = "done"
    /\ service_centers >= 2
    /\ ServiceCenterTree_dfs(root).state = 0
    /\ \E p \in NodesOf(root) : p # <<>> /\ p[Len(p)] = 2
    /\ \E p \in NodesOf(root) : p # <<>> /\ p[Len(p)] = 1

----------------------------------------------------------------------------
(* C24 *)

\* the step closes a city
Closing == closed' # closed

\* the city a closing step closes, and the g it is closed with, as the trace
\* records them
ClosedNow == steps'[Len(steps')]

\* the OPEN entries of city n
EntriesOf(n) == {i \in DOMAIN open : open[i].node = n}

\* C24 as claimed: whenever astar closes a city, the popped entry has the
\* smallest g among the entries of that city in OPEN, and every entry of
\* that city that remains in OPEN is later popped and discarded without
\* being expanded
C24_StaleLaterPopped ==
    /\ [][(alg = "astar" /\ Closing)
            => \A i \in EntriesOf(ClosedNow.current) :
                   ClosedNow.g_cost <= open[i].g]_vars
    /\ \A n \in Nodes :
          (alg = "astar" /\ n \in closed /\ EntriesOf(n) # {})
              ~> (EntriesOf(n) = {})

\* C24: whenever astar closes a city, the popped entry has the smallest g
\* among the entries of that city in OPEN, and every entry of that city
\* that remains in OPEN is never expanded: it stays in OPEN until the call
\* returns, or is popped and discarded, a step that closes nothing, records
\* nothing, pushes nothing and changes no g_costs entry
C24_StaleNeverExpanded ==
    [][alg = "astar"
         => /\ Closing
                => \A i \in EntriesOf(ClosedNow.current) :
                       ClosedNow.g_cost <= open[i].g
            /\ \A i \in DOMAIN open :
                  open[i].node \in closed
                      => \/ open[i] \in Range(open')
                         \/ /\ closed' = closed
                            /\ steps' = steps
                            /\ g_costs' = g_costs
                            /\ Len(open') = Len(open) - 1
                            /\ Range(open') \subseteq Range(open)]_vars

\* astar has returned a path to the goal while OPEN still holds an entry of
\* the goal with a larger g than the one the goal was closed with
C24_Witness ==
    /\ alg = "astar"
    /\ pc = "done"
    /\ path # None
    /\ \E i \in DOMAIN open : open[i].node = goal /\ open[i].g > total_cost

----------------------------------------------------------------------------
(* C25 *)

\* the neighbors of city n that are not in the set cl
OpenNeighbors(n, cl) == {graph[n][i][1] : i \in DOMAIN graph[n]} \ cl

\* the entries a step has put behind those that were in OPEN
Pushed == SubSeq(open', Len(open), Len(open'))

\* C25: in dfs, when the city closed last was not the goal and had a
\* neighbor not in CLOSED, the next city closed is the alphabetically
\* smallest such neighbor; in bfs the non-closed neighbors of the city that
\* is expanded are enqueued in ascending alphabetical order
C25_SmallestNeighborNext ==
    [][/\ (alg = "dfs" /\ Closing /\ steps # <<>>)
            => LET n == steps[Len(steps)].current
               IN (n # goal /\ OpenNeighbors(n, closed) # {})
                     => ClosedNow.current = SetMin(OpenNeighbors(n, closed))
       /\ (alg = "bfs" /\ Closing /\ pc' = "loop")
            => LET n == ClosedNow.current
               IN /\ {Pushed[i].node : i \in DOMAIN Pushed}
                        = OpenNeighbors(n, closed')
                  /\ \A i, j \in DOMAIN Pushed :
                        i < j => Pushed[i].node <= Pushed[j].node]_vars

\* dfs has closed a city right after one that had two or more neighbors not
\* in CLOSED, the smallest of them not the first in its adjacency list
C25_Witness ==
    /\ alg = "dfs"
    /\ pc = "loop"
    /\ \E k \in 1..(Len(steps) - 1) :
          LET n == steps[k].current
              N == OpenNeighbors(n, steps[k].closed)
          IN /\ Cardinality(N) >= 2
             /\ steps[k + 1].current = SetMin(N)
             /\ graph[n][1][1] # SetMin(N)
             /\ graph[n][1][1] \in N

----------------------------------------------------------------------------
(* C26 *)

\* the loops have passed the cell dp[i][j]: its interval is shorter than
\* length, or as long and starts before left
Passed(i, j) == j - i < length \/ (j - i = length /\ i < left)

\* C26: at the moment dp[left][right] is computed, every dp[left][k] and
\* dp[k][right] with left < k < right holds its final value, the score of
\* its interval, and no cell the loops have passed is written again;
\* entries with right - left < 2 stay 0 throughout
C26_SubintervalsFinal ==
    [][alg = "strategic_tile_shatter"
         => \A i, j \in 0..(Len(arr) - 1) :
               /\ dp'[i][j] # dp[i][j]
                     => /\ i = left /\ j = left + length
                        /\ \A k \in (i + 1)..(j - 1) :
                              /\ dp[i][k] = score(arr, i, k)
                              /\ dp[k][j] = score(arr, k, j)
                              /\ Passed(i, k) /\ Passed(k, j)
               /\ Passed(i, j) => dp'[i][j] = dp[i][j]
               /\ j - i < 2 => dp[i][j] = 0 /\ dp'[i][j] = 0]_vars

\* the last cell, dp[0][n - 1] of four tiles, is about to be computed from
\* cells that are set
C26_Witness ==
    /\ alg = "strategic_tile_shatter"
    /\ pc = "loop"
    /\ Len(Tiles) = 4
    /\ left = 0 /\ length = 5
    /\ dp[0][5] = 0
    /\ \A k \in 1..4 : dp[0][k] + dp[k][5] > 0

----------------------------------------------------------------------------
(* C27 *)

\* p begins with start, ends with city n, repeats no city and follows edges
\* of the graph
SimplePathTo(p, n) ==
    /\ p # <<>>
    /\ p[1] = start
    /\ p[Len(p)] = n
    /\ \A i, j \in DOMAIN p : p[i] = p[j] => i = j
    /\ IsPath(p)

\* C27: at every point of bfs, dfs and astar, every entry in OPEN carries a
\* path that begins with start, ends with the entry's node, repeats no node
\* and has every consecutive pair adjacent in the graph; in astar the
\* entry's g is the sum of the edge costs along that path, and the returned
\* cost is the cost of the returned path
C27_OpenPathsValid ==
    (alg \in {"bfs", "dfs", "astar"})
        => /\ \A i \in DOMAIN open :
                 /\ SimplePathTo(open[i].path, open[i].node)
                 /\ alg = "astar" => open[i].g = PathCost(open[i].path)
           /\ (alg = "astar" /\ pc = "done" /\ path # None)
                 => /\ SimplePathTo(path, goal)
                    /\ total_cost = PathCost(path)

\* astar has returned a path of three or more edges whose costs are not all
\* the same, with entries left in OPEN
C27_Witness ==
    /\ alg = "astar"
    /\ pc = "done"
    /\ path # None
    /\ Len(path) >= 4
    /\ total_cost # Len(path) - 1
    /\ total_cost > 0
    /\ open # <<>>

----------------------------------------------------------------------------
(* C28 *)

\* the largest member of a non-empty set of integers
SetMax(S) == CHOOSE x \in S : \A y \in S : y <= x

\* the most that removing the tiles t one at a time, in some order, can
\* total: a removal adds (left remaining neighbor) * (removed tile) * (right
\* remaining neighbor), 1 standing in for a missing neighbor
RECURSIVE BestRemoval(_)
BestRemoval(t) ==
    IF t = <<>> THEN 0
    ELSE SetMax({(IF i = 1 THEN 1 ELSE t[i - 1]) * t[i]
                    * (IF i = Len(t) THEN 1 ELSE t[i + 1])
                 + BestRemoval(RemoveAt(t, i)) : i \in DOMAIN t})

\* what removing the tiles from left to right totals
RECURSIVE LeftToRight(_)
LeftToRight(t) ==
    IF t = <<>> THEN 0
    ELSE t[1] * (IF Len(t) = 1 THEN 1 ELSE t[2]) + LeftToRight(Tail(t))

\* C28: for every sequence of positive integers, the value returned by
\* strategic_tile_shatter is the maximum, over all orders of removing the
\* tiles one at a time, of the total of (left remaining neighbor) *
\* (removed tile) * (right remaining neighbor), with 1 for a missing neighbor
C28_BestRemovalOrder == TileDone => points = BestRemoval(Tiles)

\* the call has returned for four tiles that removing from left to right
\* does not make the most of
C28_Witness ==
    /\ TileDone
    /\ Len(Tiles) = 4
    /\ points > LeftToRight(Tiles)

\* the three threads of the call have terminated
AllTerminated ==
    /\ threads.left = "terminated"
    /\ threads.right = "terminated"
    /\ threads.merge = "terminated"

\* C29: under fair scheduling every call of MultithreadedMergeSort.sort, and
\* every SortingSystem.start_sorting followed by wait_for_completion,
\* eventually returns, with all three threads terminated: neither the
\* merger's joins on the two sorters nor the caller's join on the merger
\* deadlocks
C29_EventuallyReturns == <>(pc = "done" /\ AllTerminated)

\* wait_for_completion has returned the sorted list of a SortingSystem whose
\* two halves were both non-empty, after all three threads terminated
C29_Witness ==
    /\ alg = "start_sorting"
    /\ pc = "done"
    /\ AllTerminated
    /\ Len(left_half) > 0
    /\ Len(right_half) > 0
    /\ result = sorted(data)

\* the places in status_log of the entries written by thread t
EntriesBy(t) == {k \in DOMAIN status_log : status_log[k].thread = t}

\* C30: in SortingSystem, under every interleaving of the threads calling
\* log_status, the k-th entry of status_log carries the number k, so that no
\* number is duplicated or skipped, and the merger's "Both threads
\* completed, starting merge..." entry comes after every entry written by
\* either sorter
C30_LogNumberedInOrder ==
    alg = "start_sorting" =>
        /\ \A k \in DOMAIN status_log : status_log[k].number = k
        /\ \A k \in DOMAIN status_log :
              status_log[k].message = "log_both" =>
                  \A m \in EntriesBy("left") \cup EntriesBy("right") : m < k

\* all ten entries are in the log, and the sorters and the merger wrote
\* theirs interleaved: the merger's first entry lies between the two
\* entries of the left sorter, and the right sorter's first entry after the
\* left sorter's last
C30_Witness ==
    /\ alg = "start_sorting"
    /\ Len(status_log) = 10
    /\ \E k, m, n \in DOMAIN status_log :
          /\ k < m
          /\ m < n
          /\ status_log[k].thread = "left"
          /\ status_log[m].thread = "merge"
          /\ status_log[n].message = "log_completed"
          /\ status_log[n].thread = "left"
          /\ \A r \in EntriesBy("right") : n < r

====
